---- MODULE Spec2Model ----
(***************************************************************************)
(* A model of the signing-and-verification engine of beltic-cli:           *)
(*   src/crypto/verifier.rs   verify_jws                                   *)
(*   src/crypto/signer.rs     sign_jws                                     *)
(*   src/credential.rs        build_claims, detect_credential_kind         *)
(*   src/commands/verify.rs   the verify command, resolve_kind             *)
(*   src/commands/sign.rs     the sign command                             *)
(*                                                                         *)
(* Conventions.  Option<T> is a sequence of length 0 (None) or 1 (Some).   *)
(* A JSON member that must be a string is a TLA+ string, with ABSENT for a *)
(* missing member and NONSTRING for a member that is present and is not a  *)
(* JSON string.  A JSON document in transit (the payload segment of a JWS) *)
(* is a sequence of <<name, value>> members, which the receiver parses.    *)
(***************************************************************************)
EXTENDS Integers, Sequences, FiniteSets, TLC

VARIABLES
    \* ---- one call of verify_jws (src/crypto/verifier.rs) ----
    tok,          \* the compact JWS handed to verify_jws
    keyFile,      \* what the file at public_key_path holds
    expAud,       \* expected_audience: Option<&[String]>
    now,          \* the clock read by the JWT library during decode
    vjPc,         \* position inside verify_jws
    vjAlg,        \* the SignatureAlg decided from the header (Option)
    keyRead,      \* the public key file has been read
    inspected,    \* a payload claim (exp, nbf, aud) has been inspected
    vjRes,        \* Result<VerifiedToken>
    \* ---- one call of build_claims (src/credential.rs) ----
    cred,         \* the credential document
    kind,         \* the CredentialKind passed in
    opts,         \* ClaimsOptions
    bcPc,         \* "call" before the call, "done" after it
    bcRes,        \* Result<Value>
    \* ---- one call of sign_jws (src/crypto/signer.rs) ----
    sgKeyFile,    \* what the file at key_path holds
    sgAlg,        \* alg
    sgKid,        \* kid: Option<String>
    sgTyp,        \* typ
    sgRes,        \* Result<String>
    \* ---- kind resolution (commands/verify.rs 294-296, resolve_kind) ----
    rkExpected,   \* args.credential_type
    rkTyp,        \* header.typ
    rkHeaderKind, \* header_kind
    rkDetected,   \* detected_kind
    rkPc,
    rkRes,        \* Result<CredentialKind>
    \* ---- the commands (commands/verify.rs, commands/sign.rs) ----
    args,         \* the command's arguments
    schemaValid,  \* the kinds whose schema the credential document satisfies
    cmdPc,        \* position inside the command
    stdout,       \* the verdict lines printed so far
    exitCode,     \* Some(code) once the process has ended
    outFile,      \* what the file at the output path holds
    privRead,     \* the private key file has been read
    sigMade,      \* a signature has been computed
    \* ---- the schema cache and the processes using it (src/schema.rs) ----
    cacheDir,     \* the cache directory exists
    cacheFile,    \* per schema type, what the cache file holds and its mtime
    schNow,       \* SystemTime::now()
    schOp,        \* per process: "get", "refresh", "clear" or "none"
    schTodo,      \* per process: the schema types still to work on
    schNet,       \* per process and schema type: what the HTTP request does
    schIo,        \* per process: the file system fault it meets, if any
    schPc,        \* per process: position in the operation
    schDoc,       \* per process: the schema fetched (Option)
    schRes,       \* per process: the Result of the last library call
    schFetched,   \* per process: the schema types it sent a request for
    schWrote,     \* per process: the schema types it tried to write
    schOut,       \* per process: the lines run_refresh / run_clear printed
    \* ---- one run of http-sign (src/commands/http_sign.rs) ----
    hsArgs,       \* HttpSignArgs
    hsEnv,        \* the clock and the random nonce the run reads
    hsPc,         \* position inside run
    hsHeaders,    \* headers: HashMap<String, String>
    hsBody,       \* body: Option<String>
    hsComponents, \* components: Vec<String>
    hsParams,     \* the signature parameters (Option)
    hsBase,       \* signature_base
    hsOut,        \* the header lines printed on standard output
    hsRes,        \* Result<()>
    \* ---- directory generate / thumbprint (src/commands/directory.rs) ----
    dirArgs,      \* GenerateArgs
    dirPc,        \* position inside run_generate
    dirFile,      \* what the file at args.out holds
    dirOut,       \* the lines run_generate printed
    dirSigned,    \* the signed response headers run_generate printed (Option)
    dirRes,       \* Result<()> of run_generate
    thArgs,       \* ThumbprintArgs: what the file at public_key holds
    thPc,         \* position inside run_thumbprint
    thOut,        \* the lines run_thumbprint printed
    dirNow,       \* the clock
    httpCache,    \* an HTTP cache in front of the directory: when it stored the response
    served,       \* the times at which the cache served the stored response
    \* ---- the memory holding private-key bytes during a signing operation ----
    kmOp,         \* "sign_jws", "http_sign" or "directory"
    kmKey,        \* what the private key file holds
    kmAlg,        \* alg (sign_jws only)
    kmBuild,      \* whether the Ed25519 library is built with its zeroize feature
    kmFault,      \* the step after the read at which the operation fails, if any
    kmPc,         \* position inside the operation
    kmHeap,       \* the buffers that hold key bytes or held them
    kmRes,        \* how the operation returned
    \* ---- the per-kind schema slots of one process (src/credential.rs) ----
    slot,         \* per kind: the Mutex<Option<Value>> content
    lockHolder,   \* per kind: the thread holding the mutex (Option)
    callKind,     \* per thread: the kind its validate_credential call is for
    callPc,       \* per thread: position inside validate_credential
    callDoc,      \* per thread: the schema its calls validated against
    callsLeft,    \* per thread: the calls it still makes
    resolved,     \* per kind: the documents get_or_fetch_schema returned
    \* ---- the sandbox monitor and the agent process (src/sandbox/monitor.rs) ----
    sbCommand,    \* command: "" , a program that cannot be started, or an agent
    sbTimeout,    \* timeout_secs: Option<u64>
    sbClock,      \* the monotonic clock, in seconds
    sbSpawned,    \* the clock when the agent process was started (Option)
    sbProc,       \* the agent process: "none", "running", "exited", "killed"
    sbPipe,       \* per stream: [open, lines]: the write end is open, lines buffered
    sbReader,     \* per stream: the reader thread: "off", "reading", "done"
    sbPc,         \* position of the thread inside run_agent
    sbWaitStart,  \* start: Instant of wait_with_timeout (Option)
    sbRes         \* Result<i32> of run_agent

engineVars == <<tok, keyFile, expAud, now, vjPc, vjAlg, keyRead, inspected, vjRes>>
claimVars == <<cred, kind, opts, bcPc, bcRes>>
signVars == <<sgKeyFile, sgAlg, sgKid, sgTyp, sgRes>>
kindVars == <<rkExpected, rkTyp, rkHeaderKind, rkDetected, rkPc, rkRes>>
cmdVars == <<args, schemaValid, cmdPc, stdout, exitCode, outFile, privRead, sigMade>>

schemaVars == <<cacheDir, cacheFile, schNow, schOp, schTodo, schNet, schIo, schPc,
                schDoc, schRes, schFetched, schWrote, schOut>>

httpVars == <<hsArgs, hsEnv, hsPc, hsHeaders, hsBody, hsComponents, hsParams, hsBase,
              hsOut, hsRes>>
dirVars == <<dirArgs, dirPc, dirFile, dirOut, dirSigned, dirRes, thArgs, thPc, thOut, dirNow,
             httpCache, served>>
memVars == <<kmOp, kmKey, kmAlg, kmBuild, kmFault, kmPc, kmHeap, kmRes>>
lockVars == <<slot, lockHolder, callKind, callPc, callDoc, callsLeft, resolved>>
sbVars == <<sbCommand, sbTimeout, sbClock, sbSpawned, sbProc, sbPipe, sbReader, sbPc, sbWaitStart,
            sbRes>>
toolVars == <<httpVars, dirVars, memVars, lockVars, sbVars>>

vars == <<engineVars, claimVars, signVars, kindVars, cmdVars, schemaVars, toolVars>>

\* what a step of verify_jws leaves alone
notEngine == <<claimVars, signVars, kindVars, cmdVars>>
coreVars == <<engineVars, claimVars, signVars, kindVars, cmdVars, schemaVars>>

----------------------------------------------------------------------------
(* Bounds of the model *)

\* the largest distance from a leeway boundary at which exp and nbf are drawn
MaxDelta == 1
\* the clock value at which tokens are verified
BaseTime == 1000
\* credential dates are drawn with local times 1..MaxLocal and UTC offsets
\* 0..MaxOff
MaxLocal == 2
MaxOff == 1

(* Program constants *)

\* validation.leeway = 300
Leeway == 300

----------------------------------------------------------------------------
(* Values *)

ABSENT == "<absent>"
NONSTRING == "<nonstring>"
None == <<>>
Some(x) == <<x>>
IsSome(o) == Len(o) = 1
Unwrap(o) == o[1]
Range(s) == {s[i] : i \in 1..Len(s)}

\* CredentialKind
Kinds == {"Agent", "Developer"}
AGENT_TYP == "application/beltic-agent+jwt"
DEVELOPER_TYP == "application/beltic-developer+jwt"

\* SignatureAlg
SignatureAlgs == {"Es256", "EdDsa"}

\* SignatureAlg::as_jwt_alg
as_jwt_alg(alg) == IF alg = "Es256" THEN "ES256" ELSE "EdDSA"

\* The `alg` names the JWT library's Algorithm enum knows; any other header
\* `alg` (written "none" below) does not deserialize into a Header.
LibraryAlgs == {"HS256", "RS256", "ES256", "EdDSA"}
HeaderAlgNames == LibraryAlgs \cup {"none"}

\* try_from_jwt_alg with its two arms exchanged
try_from_jwt_alg_Swapped(a) ==
    CASE a = "ES256" -> Some("EdDsa")
      [] a = "EdDSA" -> Some("Es256")
      [] OTHER -> None

\* try_from_jwt_alg letting one more library algorithm through
try_from_jwt_alg_Lenient(a) ==
    CASE a \in {"ES256", "HS256"} -> Some("Es256")
      [] a = "EdDSA" -> Some("EdDsa")
      [] OTHER -> None

\* SignatureAlg::try_from_jwt_alg: Ok(alg) as Some, Err(unsupported) as None
try_from_jwt_alg(a) ==
    CASE a = "ES256" -> Some("Es256")
      [] a = "EdDSA" -> Some("EdDsa")
      [] OTHER -> None

\* Key pairs and the key family each belongs to
KeyIds == {"es1", "ed1", "ed2"}
FamilyOf(k) == IF k = "es1" THEN "EC" ELSE "ED"
AlgFamily(alg) == IF alg = "Es256" THEN "EC" ELSE "ED"

\* What a key path can hold: nothing readable, or a PEM document (a public
\* key, a PKCS#8 private key, or a raw SEC1 EC private key)
MissingFile == [kind |-> "missing", key |-> "-", fam |-> "-"]
PubPem(k) == [kind |-> "pub", key |-> k, fam |-> FamilyOf(k)]
PrivPem(k) == [kind |-> "priv", key |-> k, fam |-> FamilyOf(k)]
Sec1Pem(k) == [kind |-> "sec1", key |-> k, fam |-> FamilyOf(k)]

\* The `aud` member of a payload
AudAbsent == [k |-> "absent", v |-> <<>>]
AudStr(s) == [k |-> "str", v |-> <<s>>]
AudArr(l) == [k |-> "arr", v |-> l]
AudOther == [k |-> "other", v |-> <<>>]

\* The embedded credential document
\* `$schema`: absent, not a string, or the URL https://seg1/seg2/...
SchemaAbsent == [k |-> "absent", segs |-> <<>>]
SchemaNonString == [k |-> "nonstring", segs |-> <<>>]
SchemaUrl(segs) == [k |-> "str", segs |-> segs]
\* a date member: absent, not a string, a string that is no RFC 3339
\* date-time, or the date-time `local` written with UTC offset `off`
DateAbsent == [k |-> "absent", local |-> 0, off |-> 0]
DateNonString == [k |-> "nonstring", local |-> 0, off |-> 0]
DateBad == [k |-> "bad", local |-> 0, off |-> 0]
DateTime(l, o) == [k |-> "date", local |-> l, off |-> o]
NoCred == [schema |-> SchemaAbsent, agentName |-> FALSE, agentId |-> ABSENT,
           legalName |-> FALSE, subjectDid |-> ABSENT, issuerDid |-> ABSENT,
           credentialId |-> ABSENT,
           credentialIssuanceDate |-> DateAbsent,
           credentialExpirationDate |-> DateAbsent,
           issuanceDate |-> DateAbsent, expirationDate |-> DateAbsent]
VcAbsent == [k |-> "absent", cred |-> NoCred]
VcOther == [k |-> "other", cred |-> NoCred]
VcObject(c) == [k |-> "object", cred |-> c]

\* A claim set (serde_json::Value::Object) with the members the profile uses
NoClaims == [iss |-> ABSENT, sub |-> ABSENT, jti |-> ABSENT, nbf |-> None,
             exp |-> None, iat |-> None, aud |-> AudAbsent, vc |-> VcAbsent]

\* JOSE header
NoHeader == [alg |-> "none", typ |-> None, cty |-> None, kid |-> None]

----------------------------------------------------------------------------
(* JSON in transit: serde_json writes the members that are present, in key  *)
(* order; the reader looks members up by name.                              *)

ClaimNames == <<"aud", "exp", "iat", "iss", "jti", "nbf", "sub", "vc">>

\* whether member n is present in claim set c
MemberPresent(c, n) ==
    CASE n = "aud" -> c.aud.k # "absent"
      [] n = "vc" -> c.vc.k # "absent"
      [] n \in {"exp", "iat", "nbf"} -> IsSome(c[n])
      [] OTHER -> c[n] # ABSENT

RECURSIVE SerializeFrom(_, _)
SerializeFrom(c, i) ==
    IF i > Len(ClaimNames) THEN <<>>
    ELSE LET n == ClaimNames[i]
         IN  (IF MemberPresent(c, n) THEN << <<n, c[n]>> >> ELSE <<>>)
             \o SerializeFrom(c, i + 1)

\* serde_json::to_vec(claims), as done by jsonwebtoken::encode
SerializeClaims(c) == SerializeFrom(c, 1)

HasMember(text, n) == \E i \in 1..Len(text) : text[i][1] = n
Member(text, n) == text[CHOOSE i \in 1..Len(text) : text[i][1] = n][2]

\* serde_json::from_slice::<Value>(payload), as done by jsonwebtoken::decode
ParseClaims(text) ==
    [n \in DOMAIN NoClaims |-> IF HasMember(text, n) THEN Member(text, n) ELSE NoClaims[n]]

----------------------------------------------------------------------------
(* Signatures.  A signature records the private key and algorithm that made *)
(* it and the header and payload bytes it was computed over; it verifies    *)
(* under a public key and algorithm exactly when all four agree.            *)

MakeSignature(k, jwtAlg, hdr, payload) ==
    [key |-> k, alg |-> jwtAlg, hdr |-> hdr, payload |-> payload]

\* jsonwebtoken::crypto::verify(signature, message, key, header.alg)
SignatureVerifies(t, pem, jwtAlg) ==
    /\ t.sig.key = pem.key
    /\ t.sig.alg = jwtAlg
    /\ t.sig.hdr = t.hdr
    /\ t.sig.payload = t.payload

----------------------------------------------------------------------------
(* The JOSE header in transit *)

HeaderNames == <<"alg", "cty", "kid", "typ">>

RECURSIVE EncodeHeaderFrom(_, _)
EncodeHeaderFrom(h, i) ==
    IF i > Len(HeaderNames) THEN <<>>
    ELSE LET n == HeaderNames[i]
         IN  (IF n = "alg" THEN << <<n, h.alg>> >>
              ELSE IF IsSome(h[n]) THEN << <<n, Unwrap(h[n])>> >> ELSE <<>>)
             \o EncodeHeaderFrom(h, i + 1)

\* the header segment written by jsonwebtoken::encode (None members skipped)
EncodeHeader(h) == EncodeHeaderFrom(h, 1)

OptMember(text, n) == IF HasMember(text, n) THEN Some(Member(text, n)) ELSE None

\* jsonwebtoken::decode_header: Some(header), or None when the header does
\* not deserialize (its `alg` is no variant of the library's Algorithm)
decode_header(t) ==
    IF HasMember(t.hdr, "alg") /\ Member(t.hdr, "alg") \in LibraryAlgs
    THEN Some([alg |-> Member(t.hdr, "alg"), typ |-> OptMember(t.hdr, "typ"),
               cty |-> OptMember(t.hdr, "cty"), kid |-> OptMember(t.hdr, "kid")])
    ELSE None

----------------------------------------------------------------------------
(* verify_jws, src/crypto/verifier.rs *)

Failed(e) == [ok |-> FALSE, err |-> e, payload |-> NoClaims, header |-> NoHeader, alg |-> "-"]
Verified(p, h, a) == [ok |-> TRUE, err |-> "", payload |-> p, header |-> h, alg |-> a]
Pending == Failed("pending")

\* decoding_key_from_pem: from_ec_pem / from_ed_pem accept only a public key
\* PEM of the family of `alg`
decoding_key_from_pem(pem, alg) == pem.kind = "pub" /\ pem.fam = AlgFamily(alg)

\* has_expected_audience (verifier.rs 51-53)
has_expected_audience(ea) == IsSome(ea) /\ Len(Unwrap(ea)) > 0

\* Validation as configured by verify_jws (verifier.rs 44-62), applied by
\* jsonwebtoken::decode after the signature check.  required_spec_claims is
\* empty, so a claim is checked only when the payload carries it.
AudMismatch(c, ea) ==
    CASE c.aud.k = "str" -> c.aud.v[1] \notin Range(Unwrap(ea))
      [] c.aud.k = "arr" -> Range(c.aud.v) \cap Range(Unwrap(ea)) = {}
      [] OTHER -> FALSE

\* ValidateClaims with the leeway left out
ValidateClaims_NoLeeway(c, ea, n) ==
    IF IsSome(c.exp) /\ Unwrap(c.exp) < n THEN "ExpiredSignature"
    ELSE IF IsSome(c.nbf) /\ Unwrap(c.nbf) > n THEN "ImmatureSignature"
    ELSE IF has_expected_audience(ea) /\ AudMismatch(c, ea) THEN "InvalidAudience"
    ELSE ""

ValidateClaims(c, ea, n) ==
    IF IsSome(c.exp) /\ Unwrap(c.exp) < n - Leeway THEN "ExpiredSignature"
    ELSE IF IsSome(c.nbf) /\ Unwrap(c.nbf) > n + Leeway THEN "ImmatureSignature"
    ELSE IF has_expected_audience(ea) /\ AudMismatch(c, ea) THEN "InvalidAudience"
    ELSE ""

\* AudienceClaimCheck without the check
AudienceClaimCheck_Skipped(c, ea) == ""

\* the manual check after decode (verifier.rs 71-86): "" or the error
AudienceClaimCheck(c, ea) ==
    IF ~has_expected_audience(ea) /\ c.aud.k # "absent"
    THEN "audience_claim_without_expected_audience"
    ELSE ""

\* jsonwebtoken::decode (verifier.rs 64): "" or the library's error
LibDecode(t, pem, alg, ea, n) ==
    IF ~SignatureVerifies(t, pem, as_jwt_alg(alg)) THEN "InvalidSignature"
    ELSE ValidateClaims(ParseClaims(t.payload), ea, n)

\* The whole of verify_jws as one function of its inputs
verify_jws(t, kf, ea, n) ==
    IF ~IsSome(decode_header(t)) THEN Failed("decode_header")
    ELSE LET h == Unwrap(decode_header(t))
             a == try_from_jwt_alg(h.alg)
         IN  IF ~IsSome(a) THEN Failed("unsupported_alg")
             ELSE IF kf.kind = "missing" THEN Failed("read_key")
             ELSE IF ~decoding_key_from_pem(kf, Unwrap(a)) THEN Failed("key_format")
             ELSE IF LibDecode(t, kf, Unwrap(a), ea, n) # ""
                  THEN Failed(LibDecode(t, kf, Unwrap(a), ea, n))
             ELSE IF AudienceClaimCheck(ParseClaims(t.payload), ea) # ""
                  THEN Failed(AudienceClaimCheck(ParseClaims(t.payload), ea))
             ELSE Verified(ParseClaims(t.payload), h, Unwrap(a))

(* The same function, one statement at a time *)

VjFail(e) ==
    /\ vjPc' = "done"
    /\ vjRes' = Failed(e)

\* verifier.rs 34
VjDecodeHeader ==
    /\ vjPc = "header"
    /\ IF IsSome(decode_header(tok))
       THEN vjPc' = "alg" /\ UNCHANGED vjRes
       ELSE VjFail("decode_header")
    /\ UNCHANGED <<toolVars, schemaVars, tok, keyFile, expAud, now, vjAlg, keyRead, inspected, notEngine>>

\* verifier.rs 35
VjAlgFromHeader ==
    /\ vjPc = "alg"
    /\ LET a == try_from_jwt_alg(Unwrap(decode_header(tok)).alg)
       IN  IF IsSome(a)
           THEN vjPc' = "read_key" /\ vjAlg' = a /\ UNCHANGED vjRes
           ELSE VjFail("unsupported_alg") /\ UNCHANGED vjAlg
    /\ UNCHANGED <<toolVars, schemaVars, tok, keyFile, expAud, now, keyRead, inspected, notEngine>>

\* verifier.rs 36-41
VjReadKey ==
    /\ vjPc = "read_key"
    /\ keyRead' = TRUE
    /\ IF keyFile.kind # "missing"
       THEN vjPc' = "decoding_key" /\ UNCHANGED vjRes
       ELSE VjFail("read_key")
    /\ UNCHANGED <<toolVars, schemaVars, tok, keyFile, expAud, now, vjAlg, inspected, notEngine>>

\* verifier.rs 42
VjDecodingKey ==
    /\ vjPc = "decoding_key"
    /\ IF decoding_key_from_pem(keyFile, Unwrap(vjAlg))
       THEN vjPc' = "decode" /\ UNCHANGED vjRes
       ELSE VjFail("key_format")
    /\ UNCHANGED <<toolVars, schemaVars, tok, keyFile, expAud, now, vjAlg, keyRead, inspected, notEngine>>

\* verifier.rs 44-65: the claims are read only once the signature verified
VjDecode ==
    /\ vjPc = "decode"
    /\ inspected' = SignatureVerifies(tok, keyFile, as_jwt_alg(Unwrap(vjAlg)))
    /\ LET e == LibDecode(tok, keyFile, Unwrap(vjAlg), expAud, now)
       IN  IF e = ""
           THEN vjPc' = "aud_check" /\ UNCHANGED vjRes
           ELSE VjFail(e)
    /\ UNCHANGED <<toolVars, schemaVars, tok, keyFile, expAud, now, vjAlg, keyRead, notEngine>>

\* verifier.rs 67-92
VjAudCheck ==
    /\ vjPc = "aud_check"
    /\ vjPc' = "done"
    /\ LET c == ParseClaims(tok.payload)
           e == AudienceClaimCheck(c, expAud)
       IN  vjRes' = IF e = "" THEN Verified(c, Unwrap(decode_header(tok)), Unwrap(vjAlg))
                    ELSE Failed(e)
    /\ UNCHANGED <<toolVars, schemaVars, tok, keyFile, expAud, now, vjAlg, keyRead, inspected, notEngine>>

VerifyJwsNext ==
    \/ VjDecodeHeader
    \/ VjAlgFromHeader
    \/ VjReadKey
    \/ VjDecodingKey
    \/ VjDecode
    \/ VjAudCheck

----------------------------------------------------------------------------
(* src/credential.rs *)

\* CredentialKind::media_type
media_type(k) == IF k = "Agent" THEN AGENT_TYP ELSE DEVELOPER_TYP

\* CredentialKind::issuance_field
issuance_field(k) == IF k = "Agent" THEN "credentialIssuanceDate" ELSE "issuanceDate"

\* CredentialKind::expiration_field
expiration_field(k) == IF k = "Agent" THEN "credentialExpirationDate" ELSE "expirationDate"

\* credential_kind_from_typ
credential_kind_from_typ(typ) ==
    CASE typ = AGENT_TYP -> Some("Agent")
      [] typ = DEVELOPER_TYP -> Some("Developer")
      [] OTHER -> None

\* schema.contains("/agent/"): the URL https://s1/s2/.../sn holds "/s/" exactly
\* when s is a segment other than the last
UrlContains(segs, s) == \E i \in 1..(Len(segs) - 1) : segs[i] = s

\* detect_credential_kind with the field heuristics ahead of the $schema hint
detect_credential_kind_FieldsFirst(c) ==
    IF c.agentName /\ c.agentId # ABSENT THEN Some("Agent")
    ELSE IF c.legalName /\ c.subjectDid # ABSENT THEN Some("Developer")
    ELSE IF c.schema.k = "str" /\ UrlContains(c.schema.segs, "agent") THEN Some("Agent")
    ELSE IF c.schema.k = "str" /\ UrlContains(c.schema.segs, "developer") THEN Some("Developer")
    ELSE None

\* detect_credential_kind
detect_credential_kind(c) ==
    IF c.schema.k = "str" /\ UrlContains(c.schema.segs, "agent") THEN Some("Agent")
    ELSE IF c.schema.k = "str" /\ UrlContains(c.schema.segs, "developer") THEN Some("Developer")
    ELSE IF c.agentName /\ c.agentId # ABSENT THEN Some("Agent")
    ELSE IF c.legalName /\ c.subjectDid # ABSENT THEN Some("Developer")
    ELSE None

\* extract_string: the member as Some(string), None when missing or no string
extract_string(c, field) ==
    IF c[field] \in {ABSENT, NONSTRING} THEN None ELSE Some(c[field])

\* parse_rfc3339_seconds: Some(Unix time), None on any error.  The instant a
\* date-time denotes is its local time less its UTC offset.
parse_rfc3339_seconds(c, field) ==
    IF c[field].k = "date" THEN Some(c[field].local - c[field].off) ELSE None

\* the guard letting equal instants through
ExpirationNotAfterIssuance_Strict(exp, nbf) == exp < nbf

\* the guard of credential.rs 215
ExpirationNotAfterIssuance(exp, nbf) == exp <= nbf

\* the `aud` member written as an array whatever the number of values
AudienceClaim_AlwaysArray(audience) ==
    IF Len(audience) = 0 THEN AudAbsent ELSE AudArr(audience)

\* the `aud` member build_claims writes (credential.rs 232-250)
AudienceClaim(audience) ==
    IF Len(audience) = 0 THEN AudAbsent
    ELSE IF Len(audience) = 1 THEN AudStr(audience[1])
    ELSE AudArr(audience)

\* the subject taken from the credential ahead of the explicit option
SubjectFor_CredentialFirst(c, k, o) ==
    IF c.subjectDid \notin {ABSENT, NONSTRING} THEN Some(c.subjectDid)
    ELSE IF IsSome(o.subject) THEN o.subject
    ELSE IF k = "Agent"
         THEN Some("did:agent:" \o (IF c.agentId \in {ABSENT, NONSTRING}
                                    THEN "unknown" ELSE c.agentId))
    ELSE None

\* the subject build_claims chooses (credential.rs 188-209), None for the error
SubjectFor(c, k, o) ==
    IF IsSome(o.subject) THEN o.subject
    ELSE IF c.subjectDid \notin {ABSENT, NONSTRING} THEN Some(c.subjectDid)
    ELSE IF k = "Agent"
         THEN Some("did:agent:" \o (IF c.agentId \in {ABSENT, NONSTRING}
                                    THEN "unknown" ELSE c.agentId))
    ELSE None

BuildFailed(e) == [ok |-> FALSE, err |-> e, claims |-> NoClaims]
Built(c) == [ok |-> TRUE, err |-> "", claims |-> c]

build_claims(c, k, o) ==
    LET issuer == IF IsSome(o.issuer) THEN o.issuer ELSE extract_string(c, "issuerDid")
        subject == SubjectFor(c, k, o)
        credential_id == extract_string(c, "credentialId")
        nbf == parse_rfc3339_seconds(c, issuance_field(k))
        exp == parse_rfc3339_seconds(c, expiration_field(k))
    IN  IF ~IsSome(issuer) THEN BuildFailed("missing or invalid 'issuerDid' field")
        ELSE IF ~IsSome(subject) THEN BuildFailed("subject DID is required")
        ELSE IF ~IsSome(credential_id) THEN BuildFailed("missing or invalid 'credentialId' field")
        ELSE IF ~IsSome(nbf) THEN BuildFailed("invalid issuance date")
        ELSE IF ~IsSome(exp) THEN BuildFailed("invalid expiration date")
        ELSE IF ExpirationNotAfterIssuance(Unwrap(exp), Unwrap(nbf))
             THEN BuildFailed("expiration must be greater than issuance")
        ELSE Built([iss |-> Unwrap(issuer), sub |-> Unwrap(subject),
                    jti |-> Unwrap(credential_id), nbf |-> nbf, exp |-> exp,
                    iat |-> nbf, aud |-> AudienceClaim(o.audience),
                    vc |-> VcObject(c)])

\* commands/verify.rs resolve_kind
KindFailed(e) == [ok |-> FALSE, err |-> e, kind |-> "-"]
KindIs(k) == [ok |-> TRUE, err |-> "", kind |-> k]

\* resolve_kind in which an explicit kind is not compared with the detection
resolve_kind_ExplicitWins(expected, header_kind, detected_kind) ==
    IF IsSome(expected)
    THEN IF IsSome(header_kind) /\ Unwrap(header_kind) # Unwrap(expected)
         THEN KindFailed("credential type mismatch: header")
         ELSE KindIs(Unwrap(expected))
    ELSE IF IsSome(header_kind)
    THEN IF IsSome(detected_kind) /\ Unwrap(detected_kind) # Unwrap(header_kind)
         THEN KindFailed("credential type conflict")
         ELSE KindIs(Unwrap(header_kind))
    ELSE IF IsSome(detected_kind) THEN KindIs(Unwrap(detected_kind))
    ELSE KindFailed("unable to determine credential type")

resolve_kind(expected, header_kind, detected_kind) ==
    IF IsSome(expected)
    THEN IF IsSome(header_kind) /\ Unwrap(header_kind) # Unwrap(expected)
         THEN KindFailed("credential type mismatch: header")
         ELSE IF IsSome(detected_kind) /\ Unwrap(detected_kind) # Unwrap(expected)
         THEN KindFailed("credential payload looks like another kind")
         ELSE KindIs(Unwrap(expected))
    ELSE IF IsSome(header_kind)
    THEN IF IsSome(detected_kind) /\ Unwrap(detected_kind) # Unwrap(header_kind)
         THEN KindFailed("credential type conflict")
         ELSE KindIs(Unwrap(header_kind))
    ELSE IF IsSome(detected_kind) THEN KindIs(Unwrap(detected_kind))
    ELSE KindFailed("unable to determine credential type")

----------------------------------------------------------------------------
(* sign_jws, src/crypto/signer.rs *)

NoToken == [hdr |-> <<>>, payload |-> <<>>,
            sig |-> MakeSignature("-", "-", <<>>, <<>>)]
SignFailed(e) == [ok |-> FALSE, err |-> e, token |-> NoToken]
Signed(t) == [ok |-> TRUE, err |-> "", token |-> t]

\* encoding_key_from_pem: ES256 takes a PKCS#8 EC key, or a raw SEC1 EC key
\* which it converts; EdDSA takes a PKCS#8 Ed25519 key
encoding_key_from_pem(pem, alg) ==
    IF alg = "Es256" THEN pem.kind \in {"priv", "sec1"} /\ pem.fam = "EC"
    ELSE pem.kind = "priv" /\ pem.fam = "ED"

\* jsonwebtoken::encode(&header, payload, &encoding_key)
JwtEncode(h, claims, k) ==
    LET ht == EncodeHeader(h)
        pt == SerializeClaims(claims)
    IN  [hdr |-> ht, payload |-> pt, sig |-> MakeSignature(k, h.alg, ht, pt)]

\* the header without the key id
SignHeader_NoKid(alg, kid, typ, cty) ==
    [alg |-> as_jwt_alg(alg), typ |-> Some(typ), cty |-> cty, kid |-> None]

\* the header sign_jws builds (signer.rs 26-29)
SignHeader(alg, kid, typ, cty) ==
    [alg |-> as_jwt_alg(alg), typ |-> Some(typ), cty |-> cty, kid |-> kid]

sign_jws(claims, kf, alg, kid, typ, cty) ==
    IF kf.kind = "missing" THEN SignFailed("read_private_key")
    ELSE IF ~encoding_key_from_pem(kf, alg) THEN SignFailed("key_format")
    ELSE Signed(JwtEncode(SignHeader(alg, kid, typ, cty), claims, kf.key))

----------------------------------------------------------------------------
(* Inputs of the verify_jws specification: tokens made by sign_jws, as     *)
(* they are or altered after signing, key files and expected audiences.    *)

Deltas == (0 - MaxDelta)..MaxDelta
TimeOffsets == {d - Leeway : d \in Deltas} \cup {d + Leeway : d \in Deltas}
TimeVals == {None} \cup {Some(BaseTime + o) : o \in TimeOffsets}

AudVals == {AudAbsent, AudStr("a"), AudArr(<<"a", "b">>), AudArr(<<>>), AudOther}
ExpectedAuds == {None, Some(<<>>), Some(<<"a">>), Some(<<"c">>), Some(<<"c", "b">>)}

SampleCred ==
    [NoCred EXCEPT !.agentName = TRUE, !.agentId = "agent-1",
                   !.issuerDid = "did:web:issuer", !.credentialId = "cred-1"]

EngineClaims ==
    {[NoClaims EXCEPT !.iss = "did:web:issuer", !.sub = "did:web:agent",
                      !.jti = "cred-1", !.nbf = n, !.exp = e, !.iat = n,
                      !.aud = a, !.vc = VcObject(SampleCred)] :
        n \in TimeVals, e \in TimeVals, a \in AudVals}

SigningKeys == {"es1", "ed1"}
AlgOfKey(k) == IF FamilyOf(k) = "EC" THEN "Es256" ELSE "EdDsa"

HonestToken(c, k) ==
    sign_jws(c, PrivPem(k), AlgOfKey(k), Some("key-1"), AGENT_TYP, Some("application/json")).token

\* the header `alg` rewritten after signing
WithHeaderAlg(t, a) ==
    [t EXCEPT !.hdr = [i \in 1..Len(t.hdr) |->
                          IF t.hdr[i][1] = "alg" THEN <<"alg", a>> ELSE t.hdr[i]]]

\* the payload's `aud` rewritten after signing
WithAudience(t, a) ==
    [t EXCEPT !.payload = SerializeClaims([ParseClaims(t.payload) EXCEPT !.aud = a])]

EngineTokens ==
    {WithHeaderAlg(HonestToken(c, k), a) : c \in EngineClaims, k \in SigningKeys,
                                           a \in HeaderAlgNames}
    \cup {WithAudience(HonestToken(c, k), AudStr("c")) : c \in EngineClaims, k \in SigningKeys}

EngineKeyFiles == {PubPem("es1"), PubPem("ed1"), PubPem("ed2"), PrivPem("ed1"), MissingFile}

\* The parts of the state a specification does not use
EngineOff ==
    /\ tok = NoToken /\ keyFile = MissingFile /\ expAud = None /\ now = 0
    /\ vjPc = "off" /\ vjAlg = None /\ keyRead = FALSE /\ inspected = FALSE
    /\ vjRes = Pending
NoOpts == [issuer |-> None, subject |-> None, audience |-> <<>>]
ClaimsOff ==
    /\ cred = NoCred /\ kind = "Agent" /\ opts = NoOpts /\ bcPc = "off"
    /\ bcRes = BuildFailed("pending")
SignOff ==
    /\ sgKeyFile = MissingFile /\ sgAlg = "EdDsa" /\ sgKid = None /\ sgTyp = ""
    /\ sgRes = SignFailed("pending")
KindOff ==
    /\ rkExpected = None /\ rkTyp = None /\ rkHeaderKind = None /\ rkDetected = None
    /\ rkPc = "off" /\ rkRes = KindFailed("pending")
NoArgs == [interactive |-> FALSE, issuer |-> None, subject |-> None, audience |-> <<>>,
           credential_type |-> None, skip_schema |-> FALSE, payload |-> "ok",
           write_fails |-> FALSE]
CmdOff ==
    /\ args = NoArgs /\ schemaValid = {} /\ cmdPc = "off" /\ stdout = <<>>
    /\ exitCode = None /\ outFile = "absent" /\ privRead = FALSE /\ sigMade = FALSE

\* ---- the schema cache (src/schema.rs) ----

\* the processes that may use the cache directory at the same time
Procs == {"p1", "p2"}

\* SchemaType has the variants of CredentialKind (Agent, Developer)
SchemaTypes == Kinds

\* CACHE_TTL = 24 * 60 * 60 seconds
CACHE_TTL == 86400

\* schema documents: what GitHub serves, an earlier copy of it, and the one
\* compiled into the binary
NoDoc == <<"-", "-">>
RemoteDoc(t) == <<"github", t>>
OlderDoc(t) == <<"github-earlier", t>>
get_embedded_schema(t) == <<"embedded", t>>

\* the bytes of a file: a whole JSON document, nothing, the beginning of a
\* document, bytes that are no JSON, or bytes that cannot be read as UTF-8
EmptyText == [k |-> "empty", doc |-> NoDoc]
PartialText(d) == [k |-> "partial", doc |-> d]
GarbageText == [k |-> "garbage", doc |-> NoDoc]
UnreadableText == [k |-> "unreadable", doc |-> NoDoc]

\* serde_json::to_string_pretty(schema)
to_string_pretty(d) == [k |-> "json", doc |-> d]

\* fs::read_to_string(path).ok() and then serde_json::from_str(&content).ok()
ParseSchemaText(text) == IF text.k = "json" THEN Some(text.doc) ELSE None

\* a cache file: absent, or its bytes and modification time
NoFile == [k |-> "absent", text |-> EmptyText, mtime |-> 0]
FileOf(text, mtime) == [k |-> "file", text |-> text, mtime |-> mtime]

\* Result<Value> of get_schema and refresh_schema, Result<()> of clear_cache
SchPending == [ok |-> FALSE, err |-> "pending", doc |-> NoDoc]
SchErr(e) == [ok |-> FALSE, err |-> e, doc |-> NoDoc]
SchOk(d) == [ok |-> TRUE, err |-> "", doc |-> d]

SchemaOff ==
    /\ cacheDir = FALSE /\ cacheFile = [t \in SchemaTypes |-> NoFile] /\ schNow = 0
    /\ schOp = [p \in Procs |-> "none"] /\ schTodo = [p \in Procs |-> <<>>]
    /\ schNet = [p \in Procs |-> [t \in SchemaTypes |-> "ok"]]
    /\ schIo = [p \in Procs |-> "none"] /\ schPc = [p \in Procs |-> "done"]
    /\ schDoc = [p \in Procs |-> None] /\ schRes = [p \in Procs |-> SchPending]
    /\ schFetched = [p \in Procs |-> {}] /\ schWrote = [p \in Procs |-> {}]
    /\ schOut = [p \in Procs |-> <<>>]

\* ---- http-sign, directory, key memory, schema slots, sandbox: not running ----
Threads == {"t1", "t2", "t3"}
Streams == {"stdout", "stderr"}

HttpOff ==
    /\ hsArgs = <<>> /\ hsEnv = <<>> /\ hsPc = "off" /\ hsHeaders = <<>>
    /\ hsBody = None /\ hsComponents = <<>> /\ hsParams = None /\ hsBase = ""
    /\ hsOut = <<>> /\ hsRes = "pending"
DirOff ==
    /\ dirArgs = <<>> /\ dirPc = "off" /\ dirFile = None /\ dirOut = <<>> /\ dirSigned = None
    /\ dirRes = "pending" /\ thArgs = MissingFile /\ thPc = "off" /\ thOut = <<>>
    /\ dirNow = 0 /\ httpCache = None /\ served = {}
MemOff ==
    /\ kmOp = "none" /\ kmKey = MissingFile /\ kmAlg = "EdDsa" /\ kmBuild = TRUE
    /\ kmFault = "none" /\ kmPc = "off" /\ kmHeap = {} /\ kmRes = "pending"
LockOff ==
    /\ slot = [k \in Kinds |-> None] /\ lockHolder = [k \in Kinds |-> None]
    /\ callKind = [t \in Threads |-> "Agent"] /\ callPc = [t \in Threads |-> "off"]
    /\ callDoc = [t \in Threads |-> {}] /\ callsLeft = [t \in Threads |-> 0]
    /\ resolved = [k \in Kinds |-> <<>>]
SandboxOff ==
    /\ sbCommand = "" /\ sbTimeout = None /\ sbClock = 0 /\ sbSpawned = None /\ sbProc = "none"
    /\ sbPipe = [s \in Streams |-> [open |-> FALSE, lines |-> 0]]
    /\ sbReader = [s \in Streams |-> "off"] /\ sbPc = "off" /\ sbWaitStart = None
    /\ sbRes = "pending"
ToolsOff == HttpOff /\ DirOff /\ MemOff /\ LockOff /\ SandboxOff

VerifyInit ==
    /\ tok \in EngineTokens
    /\ keyFile \in EngineKeyFiles
    /\ expAud \in ExpectedAuds
    /\ now = BaseTime
    /\ vjPc = "header"
    /\ vjAlg = None
    /\ keyRead = FALSE
    /\ inspected = FALSE
    /\ vjRes = Pending
    /\ ClaimsOff /\ SignOff /\ KindOff /\ CmdOff
    /\ SchemaOff /\ ToolsOff

(* verify_jws on every such input *)
SpecVerify == VerifyInit /\ [][VerifyJwsNext]_vars

\* the step machine computes verify_jws
VjAgrees == vjPc = "done" => vjRes = verify_jws(tok, keyFile, expAud, now)

----------------------------------------------------------------------------
(* Properties of verify_jws, checked under SpecVerify *)

TokClaims == ParseClaims(tok.payload)
TokHeaderAlg == Member(tok.hdr, "alg")

\* the token is as its signer made it and the key file is the signer's public key
CorrectlySigned ==
    /\ tok.sig.hdr = tok.hdr
    /\ tok.sig.payload = tok.payload
    /\ keyFile = PubPem(tok.sig.key)

NotExpired == IsSome(TokClaims.exp) => now <= Unwrap(TokClaims.exp) + Leeway
NotImmature == IsSome(TokClaims.nbf) => now >= Unwrap(TokClaims.nbf) - Leeway
InTimeWindow == NotExpired /\ NotImmature

NoExpectedAudience == expAud = None \/ expAud = Some(<<>>)

\* the values of the token's `aud`, when it is a string or an array of strings
TokAudValues == IF TokClaims.aud.k \in {"str", "arr"} THEN Range(TokClaims.aud.v) ELSE {}
AudienceIntersects == ~NoExpectedAudience /\ TokAudValues \cap Range(Unwrap(expAud)) # {}

\* C1: with no expected audience, a correctly signed token inside its time
\* window is accepted iff its payload has no `aud` member, and one with an
\* `aud` member is rejected with the error about the audience claim.
C1_NoExpectedAudienceRequiresNoAud ==
    (vjPc = "done" /\ NoExpectedAudience /\ CorrectlySigned /\ InTimeWindow)
        => /\ vjRes.ok <=> (TokClaims.aud.k = "absent")
           /\ TokClaims.aud.k # "absent"
                => vjRes.err = "audience_claim_without_expected_audience"

C1_Witness ==
    /\ vjPc = "done" /\ expAud = None /\ CorrectlySigned /\ InTimeWindow
    /\ TokClaims.aud = AudArr(<<"a", "b">>)
    /\ ~vjRes.ok
    /\ vjRes.err = "audience_claim_without_expected_audience"

\* C2: with a non-empty expected audience list E, verify_jws succeeds only
\* if the token's `aud` has a value in E; a token with no `aud` is rejected.
C2_ExpectedAudienceMustIntersect ==
    (vjPc = "done" /\ ~NoExpectedAudience /\ vjRes.ok) => AudienceIntersects

\* C3: a token signed with a key of one algorithm is never accepted under a
\* public key of the other; the algorithm verify_jws works with is the one
\* the header names, and VerifiedToken.alg is that algorithm.
C3_AlgorithmBinding ==
    /\ vjRes.ok => ~(tok.sig.alg = "ES256" /\ keyFile.fam = "ED")
    /\ vjRes.ok => ~(tok.sig.alg = "EdDSA" /\ keyFile.fam = "EC")
    /\ IsSome(vjAlg) => as_jwt_alg(Unwrap(vjAlg)) = TokHeaderAlg
    /\ vjRes.ok => as_jwt_alg(vjRes.alg) = TokHeaderAlg /\ TokHeaderAlg = tok.sig.alg

\* an ES256-signed token whose header was rewritten to EdDSA, checked against
\* an EdDSA public key: it reaches the signature check and fails there
C3_Witness ==
    /\ vjPc = "done"
    /\ tok.sig.alg = "ES256" /\ TokHeaderAlg = "EdDSA" /\ keyFile = PubPem("ed1")
    /\ vjAlg = Some("EdDsa")
    /\ ~vjRes.ok /\ vjRes.err = "InvalidSignature"

\* C4 as stated: a header `alg` other than ES256 and EdDSA ends in the
\* unsupported-algorithm error, with the key file unread and no claim inspected.
C4_UnsupportedAlgErrorFirst ==
    (vjPc = "done" /\ TokHeaderAlg \notin {"ES256", "EdDSA"})
        => vjRes.err = "unsupported_alg" /\ ~keyRead /\ ~inspected

\* C4 amended: such a token is rejected before the key file is read and
\* before any claim is inspected; the error is the unsupported-algorithm
\* error when the library knows the algorithm, and the header decoding
\* error when it does not.
C4_RejectedBeforeKeyAndClaims ==
    TokHeaderAlg \notin {"ES256", "EdDSA"}
        => /\ ~keyRead /\ ~inspected /\ ~vjRes.ok
           /\ vjPc \in {"header", "alg", "done"}
           /\ vjPc = "done" =>
                vjRes.err = IF TokHeaderAlg \in LibraryAlgs
                            THEN "unsupported_alg" ELSE "decode_header"

C4_Witness ==
    /\ vjPc = "done" /\ TokHeaderAlg = "HS256" /\ keyFile = PubPem("es1")
    /\ vjRes.err = "unsupported_alg" /\ ~keyRead /\ ~inspected

\* C5: a correctly signed token with its audience satisfied and both nbf and
\* exp present is accepted iff nbf - 300 <= now <= exp + 300; past exp + 300
\* it is rejected as expired, before nbf - 300 as not yet valid.
AudienceSatisfied ==
    IF NoExpectedAudience THEN TokClaims.aud.k = "absent" ELSE AudienceIntersects

C5_LeewayOnBothBounds ==
    (/\ vjPc = "done" /\ CorrectlySigned /\ AudienceSatisfied
     /\ IsSome(TokClaims.exp) /\ IsSome(TokClaims.nbf))
        => LET exp == Unwrap(TokClaims.exp)
               nbf == Unwrap(TokClaims.nbf)
           IN  /\ vjRes.ok <=> (nbf - 300 <= now /\ now <= exp + 300)
               /\ now > exp + 300 => vjRes.err = "ExpiredSignature"
               /\ (now < nbf - 300 /\ now <= exp + 300) => vjRes.err = "ImmatureSignature"

\* accepted exactly on the expiry boundary, now = exp + 300
C5_Witness ==
    /\ vjPc = "done" /\ CorrectlySigned /\ AudienceSatisfied
    /\ TokClaims.exp = Some(now - 300) /\ TokClaims.nbf = Some(now + 300)
    /\ vjRes.ok

----------------------------------------------------------------------------
(* build_claims on credentials whose four date members vary *)

DateVals ==
    {DateAbsent, DateNonString, DateBad}
    \cup {DateTime(l, o) : l \in 1..MaxLocal, o \in 0..MaxOff}

DatedCreds ==
    {[SampleCred EXCEPT !.subjectDid = s,
                        !.credentialIssuanceDate = ai, !.credentialExpirationDate = ae,
                        !.issuanceDate = di, !.expirationDate = de] :
        s \in {ABSENT, "did:web:subject"}, ai \in DateVals, ae \in DateVals,
        di \in DateVals, de \in DateVals}

ClaimsInit ==
    /\ cred \in DatedCreds
    /\ kind \in Kinds
    /\ opts = NoOpts
    /\ bcPc = "call"
    /\ bcRes = BuildFailed("pending")
    /\ EngineOff /\ SignOff /\ KindOff /\ CmdOff
    /\ SchemaOff /\ ToolsOff

BuildClaimsCall ==
    /\ bcPc = "call"
    /\ bcPc' = "done"
    /\ bcRes' = build_claims(cred, kind, opts)
    /\ UNCHANGED <<toolVars, schemaVars, cred, kind, opts, engineVars, signVars, kindVars, cmdVars>>

SpecClaims == ClaimsInit /\ [][BuildClaimsCall]_vars

(* Properties of build_claims, checked under SpecClaims *)

\* the date members the kind's convention names
KindIssuance == IF kind = "Agent" THEN cred.credentialIssuanceDate ELSE cred.issuanceDate
KindExpiration == IF kind = "Agent" THEN cred.credentialExpirationDate ELSE cred.expirationDate
Instant(d) == d.local - d.off

\* C8: build_claims returns a claim set only when the expiration parsed from
\* the kind's expiration member is strictly greater than the issuance parsed
\* from the kind's issuance member; with expiration <= issuance it fails.
C8_ExpirationAfterIssuance ==
    bcPc = "done" =>
        /\ bcRes.ok =>
              /\ KindIssuance.k = "date" /\ KindExpiration.k = "date"
              /\ bcRes.claims.nbf = Some(Instant(KindIssuance))
              /\ bcRes.claims.exp = Some(Instant(KindExpiration))
              /\ Unwrap(bcRes.claims.exp) > Unwrap(bcRes.claims.nbf)
        /\ (/\ KindIssuance.k = "date" /\ KindExpiration.k = "date"
            /\ Instant(KindExpiration) <= Instant(KindIssuance)) => ~bcRes.ok

\* a Developer credential whose two dates are written differently and denote
\* the same instant, while its Agent-convention members are in order
C8_Witness ==
    /\ bcPc = "done" /\ kind = "Developer"
    /\ cred.issuanceDate = DateTime(1, 0) /\ cred.expirationDate = DateTime(2, 1)
    /\ cred.credentialIssuanceDate = DateTime(1, 0)
    /\ cred.credentialExpirationDate = DateTime(2, 0)
    /\ cred.subjectDid = "did:web:subject"
    /\ ~bcRes.ok /\ bcRes.err = "expiration must be greater than issuance"

----------------------------------------------------------------------------
(* Kind resolution as validate_verified does it (commands/verify.rs        *)
(* 294-296): the header kind from `typ`, the detected kind from the        *)
(* payload, then resolve_kind.                                             *)

KindOptions == {None, Some("Agent"), Some("Developer")}
TypVals == {None, Some(AGENT_TYP), Some(DEVELOPER_TYP), Some("application/jwt")}
SchemaVals ==
    {SchemaAbsent, SchemaNonString,
     SchemaUrl(<<"schema.beltic.com", "agent", "v1", "agent-credential-v1.schema.json">>),
     SchemaUrl(<<"schema.beltic.com", "developer", "v1", "developer-credential-v1.schema.json">>),
     SchemaUrl(<<"schema.beltic.com", "developer", "agent", "v1">>),
     SchemaUrl(<<"schema.beltic.com", "v1", "agent">>),
     SchemaUrl(<<"example.com", "schema.json">>)}

KindCreds ==
    {[NoCred EXCEPT !.schema = sc, !.agentName = an, !.agentId = ai,
                    !.legalName = ln, !.subjectDid = sd] :
        sc \in SchemaVals, an \in BOOLEAN, ai \in {ABSENT, NONSTRING, "agent-1"},
        ln \in BOOLEAN, sd \in {ABSENT, "did:web:subject"}}

KindInit ==
    /\ rkExpected \in KindOptions
    /\ rkTyp \in TypVals
    /\ cred \in KindCreds
    /\ rkHeaderKind = None /\ rkDetected = None
    /\ rkPc = "signals"
    /\ rkRes = KindFailed("pending")
    /\ kind = "Agent" /\ opts = NoOpts /\ bcPc = "off" /\ bcRes = BuildFailed("pending")
    /\ EngineOff /\ SignOff /\ CmdOff
    /\ SchemaOff /\ ToolsOff

\* verify.rs 294-295
RkSignals ==
    /\ rkPc = "signals"
    /\ rkPc' = "resolve"
    /\ rkHeaderKind' = IF IsSome(rkTyp) THEN credential_kind_from_typ(Unwrap(rkTyp)) ELSE None
    /\ rkDetected' = detect_credential_kind(cred)
    /\ UNCHANGED <<toolVars, schemaVars, rkExpected, rkTyp, rkRes, engineVars, claimVars, signVars, cmdVars>>

\* verify.rs 296
RkResolve ==
    /\ rkPc = "resolve"
    /\ rkPc' = "done"
    /\ rkRes' = resolve_kind(rkExpected, rkHeaderKind, rkDetected)
    /\ UNCHANGED <<toolVars, schemaVars, rkExpected, rkTyp, rkHeaderKind, rkDetected,
                   engineVars, claimVars, signVars, cmdVars>>

KindNext ==
    \/ RkSignals
    \/ RkResolve

SpecKind == KindInit /\ [][KindNext]_vars

(* Properties of resolve_kind, checked under SpecKind *)

\* the kinds named by the signals that are present
PresentSignals == Range(rkExpected) \cup Range(rkHeaderKind) \cup Range(rkDetected)

\* C10: resolve_kind returns kind k exactly when some signal is present and
\* every present signal is k; two differing present signals give an error;
\* no signal gives the error "unable to determine credential type".
C10_ResolveKindAgreement ==
    rkPc = "done" =>
        /\ \A k \in Kinds : (rkRes.ok /\ rkRes.kind = k) <=> PresentSignals = {k}
        /\ rkRes.ok => rkRes.kind \in Kinds
        /\ Cardinality(PresentSignals) = 2
              => ~rkRes.ok /\ rkRes.err # "unable to determine credential type"
        /\ PresentSignals = {}
              => ~rkRes.ok /\ rkRes.err = "unable to determine credential type"

\* no explicit kind, the header says Agent, the payload looks like Developer
C10_Witness ==
    /\ rkPc = "done" /\ rkExpected = None
    /\ rkHeaderKind = Some("Agent") /\ rkDetected = Some("Developer")
    /\ ~rkRes.ok /\ rkRes.err = "credential type conflict"

----------------------------------------------------------------------------
(* Round trip: build_claims, then sign_jws, then verify_jws *)

DateTimes == {DateTime(l, o) : l \in 1..MaxLocal, o \in 0..MaxOff}

RtCreds ==
    {[SampleCred EXCEPT !.subjectDid = "did:web:subject",
                        !.credentialIssuanceDate = DateTime(1, 0),
                        !.credentialExpirationDate = e,
                        !.issuanceDate = DateTime(1, 0),
                        !.expirationDate = e] : e \in DateTimes}
RtOpts == {[NoOpts EXCEPT !.audience = a] : a \in {<<>>, <<"a">>, <<"a", "b">>}}
RtNows == {MaxLocal + Leeway - 1, MaxLocal + Leeway, MaxLocal + Leeway + 1, BaseTime}

RoundTripInit ==
    /\ cred \in RtCreds /\ kind \in Kinds /\ opts \in RtOpts
    /\ bcPc = "call" /\ bcRes = BuildFailed("pending")
    /\ sgKeyFile \in {PrivPem("es1"), Sec1Pem("es1"), PrivPem("ed1")}
    /\ sgAlg \in SignatureAlgs
    /\ sgKid \in {None, Some("did:web:beltic.test#key-1")}
    /\ sgTyp \in {AGENT_TYP, DEVELOPER_TYP}
    /\ sgRes = SignFailed("pending")
    /\ tok = NoToken
    /\ keyFile \in {PubPem("es1"), PubPem("ed1")}
    /\ expAud \in {None, Some(<<"a">>), Some(<<"c">>)}
    /\ now \in RtNows
    /\ vjPc = "wait" /\ vjAlg = None /\ keyRead = FALSE /\ inspected = FALSE
    /\ vjRes = Pending
    /\ KindOff /\ CmdOff
    /\ SchemaOff /\ ToolsOff

\* sign_jws on the claim set build_claims returned; its token goes to verify_jws
RtSign ==
    /\ bcPc = "done" /\ bcRes.ok /\ vjPc = "wait"
    /\ sgRes' = sign_jws(bcRes.claims, sgKeyFile, sgAlg, sgKid, sgTyp,
                         Some("application/json"))
    /\ IF sgRes'.ok
       THEN tok' = sgRes'.token /\ vjPc' = "header"
       ELSE tok' = tok /\ vjPc' = "off"
    /\ UNCHANGED <<toolVars, schemaVars, keyFile, expAud, now, vjAlg, keyRead, inspected, vjRes,
                   sgKeyFile, sgAlg, sgKid, sgTyp, claimVars, kindVars, cmdVars>>

RoundTripNext ==
    \/ BuildClaimsCall
    \/ RtSign
    \/ VerifyJwsNext

SpecRoundTrip == RoundTripInit /\ [][RoundTripNext]_vars

(* Properties of the round trip, checked under SpecRoundTrip *)

\* verify_jws was given the public key of the signing key and an expected
\* audience that matches the audience the claims were built with
RtMatchingInputs ==
    /\ keyFile = PubPem(sgKeyFile.key)
    /\ IF Len(opts.audience) = 0 THEN expAud = None
       ELSE IsSome(expAud) /\ Range(Unwrap(expAud)) \cap Range(opts.audience) # {}

RtReturnsWhatWasSigned ==
    /\ vjRes.ok
    /\ vjRes.payload = bcRes.claims
    /\ vjRes.header.alg = as_jwt_alg(sgAlg)
    /\ vjRes.header.typ = Some(sgTyp)
    /\ vjRes.header.kid = sgKid

RtInTimeWindow ==
    /\ now <= Unwrap(bcRes.claims.exp) + Leeway
    /\ now >= Unwrap(bcRes.claims.nbf) - Leeway

\* C6 as stated: for every claim set built by build_claims, verify_jws of
\* sign_jws of it, with the matching public key and a matching expected
\* audience, returns a payload equal to the claim set and a header with the
\* alg, typ and kid given to sign_jws.
C6_RoundTrip ==
    (vjPc = "done" /\ sgRes.ok /\ RtMatchingInputs) => RtReturnsWhatWasSigned

\* C6 amended: the same, for a verification time inside the claim set's time
\* window, nbf - 300 <= now <= exp + 300.
C6_RoundTripInTimeWindow ==
    (vjPc = "done" /\ sgRes.ok /\ RtMatchingInputs /\ RtInTimeWindow)
        => RtReturnsWhatWasSigned

C6_Witness ==
    /\ vjPc = "done" /\ sgRes.ok /\ RtMatchingInputs /\ RtInTimeWindow
    /\ sgKeyFile = Sec1Pem("es1") /\ opts.audience = <<"a", "b">>
    /\ IsSome(sgKid) /\ kind = "Developer"
    /\ now = Unwrap(bcRes.claims.exp) + Leeway
    /\ RtReturnsWhatWasSigned

----------------------------------------------------------------------------
(* The verify command, src/commands/verify.rs.  run() takes the            *)
(* interactive path (run_interactive, do_verify) or run_non_interactive;   *)
(* args.interactive says which.  The token and the key path are given.     *)

\* line 121 and line 145 call verify_jws(token.trim(), key): no expected
\* audience is handed to the engine
CommandExpectedAudience(a) == None

\* extract_audience: Some(values), None for "aud claim must be a string or array"
extract_audience(c) ==
    CASE c.aud.k = "absent" -> Some(<<>>)
      [] c.aud.k \in {"str", "arr"} -> Some(c.aud.v)
      [] OTHER -> None

\* validate_credential(kind, vc): whether the validator reports no error
SchemaPasses(k, sv) == k \in sv

\* validate_verified and validate_verified_interactive, which make the same
\* checks in the same order: "" when all pass, else the first error
validate_verified(v, a, sv) ==
    LET c == v.payload
        header_kind == IF IsSome(v.header.typ)
                       THEN credential_kind_from_typ(Unwrap(v.header.typ)) ELSE None
        rk == resolve_kind(a.credential_type, header_kind,
                           detect_credential_kind(c.vc.cred))
    IN  IF IsSome(v.header.typ) /\ ~IsSome(header_kind) THEN "unexpected typ header"
        ELSE IF c.vc.k = "absent" THEN "vc claim missing from JWT payload"
        ELSE IF c.vc.k # "object" THEN "vc claim must be an object"
        ELSE IF ~rk.ok THEN rk.err
        ELSE IF c.iss \in {ABSENT, NONSTRING} THEN "iss claim missing"
        ELSE IF c.sub \in {ABSENT, NONSTRING} THEN "sub claim missing"
        ELSE IF c.jti \in {ABSENT, NONSTRING} THEN "jti claim missing"
        ELSE IF ~IsSome(c.nbf) \/ ~IsSome(c.exp) THEN "nbf and exp claims are required"
        ELSE IF IsSome(a.issuer) /\ c.iss # Unwrap(a.issuer) THEN "issuer mismatch"
        ELSE IF Len(a.audience) > 0 /\ ~IsSome(extract_audience(c))
             THEN "aud claim must be a string or array"
        ELSE IF /\ Len(a.audience) > 0
                /\ ~(Range(a.audience) \subseteq Range(Unwrap(extract_audience(c))))
             THEN "audience mismatch"
        ELSE IF ~a.skip_schema /\ ~SchemaPasses(rk.kind, sv) THEN "schema validation failed"
        ELSE ""

\* verify.rs 121-133 and 145-164: verify_jws and the report of its result
CmdVerifyJws ==
    /\ cmdPc = "verify"
    /\ vjRes' = verify_jws(tok, keyFile, CommandExpectedAudience(args), now)
    /\ IF vjRes'.ok
       THEN /\ cmdPc' = "validate"
            /\ exitCode' = exitCode
            /\ stdout' = IF args.interactive
                         THEN Append(stdout, "Verification successful!") ELSE stdout
       ELSE /\ cmdPc' = "done"
            /\ exitCode' = Some(1)
            /\ stdout' = Append(stdout, IF args.interactive
                                        THEN "Verification failed:" ELSE "INVALID")
    /\ UNCHANGED <<toolVars, schemaVars, tok, keyFile, expAud, now, vjPc, vjAlg, keyRead, inspected,
                   args, schemaValid, outFile, privRead, sigMade,
                   claimVars, signVars, kindVars>>

\* verify.rs 123-127 and 150-156: the checks on the verified token
CmdValidate ==
    /\ cmdPc = "validate"
    /\ cmdPc' = "done"
    /\ LET e == validate_verified(vjRes, args, schemaValid)
       IN  IF e = ""
           THEN /\ exitCode' = Some(0)
                /\ stdout' = Append(stdout, IF args.interactive
                                            THEN "Credential payload:" ELSE "VALID")
           ELSE /\ exitCode' = Some(1)
                /\ stdout' = Append(stdout, IF args.interactive
                                            THEN "Validation failed:" ELSE "INVALID")
    /\ UNCHANGED <<toolVars, schemaVars, engineVars, args, schemaValid, outFile, privRead, sigMade,
                   claimVars, signVars, kindVars>>

VerifyCmdNext ==
    \/ CmdVerifyJws
    \/ CmdValidate

(* Inputs: tokens signed by ed1 whose header typ and payload vary *)

UndetectableCred == [SampleCred EXCEPT !.agentName = FALSE]

GoodClaims ==
    [NoClaims EXCEPT !.iss = "did:web:issuer", !.sub = "did:web:agent",
                     !.jti = "cred-1", !.nbf = Some(BaseTime), !.exp = Some(BaseTime),
                     !.iat = Some(BaseTime), !.vc = VcObject(SampleCred)]

CmdClaims ==
    {GoodClaims,
     [GoodClaims EXCEPT !.iss = ABSENT], [GoodClaims EXCEPT !.sub = NONSTRING],
     [GoodClaims EXCEPT !.jti = ABSENT], [GoodClaims EXCEPT !.nbf = None],
     [GoodClaims EXCEPT !.exp = None], [GoodClaims EXCEPT !.vc = VcAbsent],
     [GoodClaims EXCEPT !.vc = VcOther],
     [GoodClaims EXCEPT !.vc = VcObject(UndetectableCred)],
     [GoodClaims EXCEPT !.exp = Some(BaseTime - Leeway - 1)],
     [GoodClaims EXCEPT !.aud = AudStr("a")]}

CmdTokens ==
    {JwtEncode([alg |-> "EdDSA", typ |-> t, cty |-> None, kid |-> None], c, "ed1") :
        t \in {None, Some(AGENT_TYP), Some("application/jwt")}, c \in CmdClaims}

VerifyCmdArgs ==
    {[NoArgs EXCEPT !.interactive = i, !.issuer = iss, !.audience = aud,
                    !.credential_type = ct, !.skip_schema = ss] :
        i \in BOOLEAN, iss \in {None, Some("did:web:issuer"), Some("did:web:other")},
        aud \in {<<>>, <<"a">>}, ct \in KindOptions, ss \in BOOLEAN}

VerifyCmdInit ==
    /\ args \in VerifyCmdArgs
    /\ schemaValid \in {{}, {"Agent"}}
    /\ tok \in CmdTokens
    /\ keyFile \in {PubPem("ed1"), PubPem("ed2")}
    /\ now = BaseTime
    /\ cmdPc = "verify" /\ stdout = <<>> /\ exitCode = None
    /\ outFile = "absent" /\ privRead = FALSE /\ sigMade = FALSE
    /\ expAud = None /\ vjPc = "off" /\ vjAlg = None /\ keyRead = FALSE
    /\ inspected = FALSE /\ vjRes = Pending
    /\ ClaimsOff /\ SignOff /\ KindOff
    /\ SchemaOff /\ ToolsOff

SpecVerifyCmd == VerifyCmdInit /\ [][VerifyCmdNext]_vars

(* Properties of the verify command, checked under SpecVerifyCmd *)

SuccessVerdicts == {"VALID", "Verification successful!"}
SuccessEmitted == \E i \in 1..Len(stdout) : stdout[i] \in SuccessVerdicts

\* every check of the run passes: the engine's (signature, time window,
\* audience) and the command's (typ, vc, kind, iss, sub, jti, nbf, exp,
\* issuer, audience, schema)
EveryCheckPasses ==
    LET v == verify_jws(tok, keyFile, CommandExpectedAudience(args), now)
    IN  v.ok /\ validate_verified(v, args, schemaValid) = ""

\* C7: a success verdict is emitted only after every check has passed; for a
\* token that fails a check, none is emitted at any point of the run.
C7_SuccessVerdictOnlyAfterAllChecks ==
    SuccessEmitted => EveryCheckPasses

----------------------------------------------------------------------------
(* The sign command, src/commands/sign.rs: run_non_interactive and do_sign *)
(* take the same steps; each `?` or bail! ends the run with an error.      *)

\* the schema step (sign.rs 165-174, 232-243) lets the run go on
SchemaStep_Always(a, k, sv) == TRUE

SchemaStep(a, k, sv) == a.skip_schema \/ SchemaPasses(k, sv)

\* ClaimsOptions { issuer, subject, audience } built from the arguments
ClaimsOptionsOf(a) == [issuer |-> a.issuer, subject |-> a.subject, audience |-> a.audience]

ScEnd(code) ==
    cmdPc' = "done" /\ exitCode' = Some(code)

\* fs::read_to_string(payload) and serde_json::from_str
ScReadPayload ==
    /\ cmdPc = "read"
    /\ IF args.payload = "ok" THEN cmdPc' = "kind" /\ exitCode' = exitCode ELSE ScEnd(1)
    /\ UNCHANGED <<toolVars, schemaVars, args, schemaValid, stdout, outFile, privRead, sigMade,
                   engineVars, claimVars, signVars, kindVars>>

\* the kind: args.credential_type, else detect_credential_kind(&payload_json)
ScKind ==
    /\ cmdPc = "kind"
    /\ LET k == IF IsSome(args.credential_type) THEN args.credential_type
                ELSE detect_credential_kind(cred)
       IN  IF IsSome(k)
           THEN kind' = Unwrap(k) /\ cmdPc' = "schema" /\ exitCode' = exitCode
           ELSE kind' = kind /\ ScEnd(1)
    /\ UNCHANGED <<toolVars, schemaVars, args, schemaValid, stdout, outFile, privRead, sigMade,
                   cred, opts, bcPc, bcRes, engineVars, signVars, kindVars>>

\* validate_credential unless --skip-schema
ScSchema ==
    /\ cmdPc = "schema"
    /\ IF SchemaStep(args, kind, schemaValid)
       THEN cmdPc' = "claims" /\ exitCode' = exitCode
       ELSE ScEnd(1)
    /\ UNCHANGED <<toolVars, schemaVars, args, schemaValid, stdout, outFile, privRead, sigMade,
                   engineVars, claimVars, signVars, kindVars>>

\* build_claims(&payload_json, kind, ClaimsOptions {..})?
ScClaims ==
    /\ cmdPc = "claims"
    /\ opts' = ClaimsOptionsOf(args)
    /\ bcRes' = build_claims(cred, kind, opts')
    /\ bcPc' = "done"
    /\ IF bcRes'.ok THEN cmdPc' = "sign" /\ exitCode' = exitCode ELSE ScEnd(1)
    /\ UNCHANGED <<toolVars, schemaVars, args, schemaValid, stdout, outFile, privRead, sigMade,
                   cred, kind, engineVars, signVars, kindVars>>

\* sign_jws(&claims, key, args.alg, Some(kid), kind.media_type(), Some("application/json"))?
ScSign ==
    /\ cmdPc = "sign"
    /\ sgTyp' = media_type(kind)
    /\ sgRes' = sign_jws(bcRes.claims, sgKeyFile, sgAlg, sgKid, sgTyp',
                         Some("application/json"))
    /\ privRead' = (sgKeyFile.kind # "missing")
    /\ sigMade' = sgRes'.ok
    /\ IF sgRes'.ok THEN cmdPc' = "write" /\ exitCode' = exitCode ELSE ScEnd(1)
    /\ UNCHANGED <<toolVars, schemaVars, args, schemaValid, stdout, outFile, sgKeyFile, sgAlg, sgKid,
                   engineVars, claimVars, kindVars>>

\* create_dir_all(parent) and fs::write(out, &token); a write that fails may
\* leave the file as it was or with part of the token
ScWrite ==
    /\ cmdPc = "write"
    /\ IF args.write_fails
       THEN /\ outFile' \in {outFile, "partial"}
            /\ stdout' = stdout
            /\ ScEnd(1)
       ELSE /\ outFile' = "new"
            /\ stdout' = Append(stdout, IF args.interactive
                                        THEN "Signed successfully!" ELSE "Wrote")
            /\ ScEnd(0)
    /\ UNCHANGED <<toolVars, schemaVars, args, schemaValid, privRead, sigMade,
                   engineVars, claimVars, signVars, kindVars>>

SignCmdNext ==
    \/ ScReadPayload
    \/ ScKind
    \/ ScSchema
    \/ ScClaims
    \/ ScSign
    \/ ScWrite

(* Inputs of the sign command *)

SignCmdArgs ==
    {[NoArgs EXCEPT !.interactive = i, !.credential_type = ct, !.skip_schema = ss,
                    !.payload = p, !.write_fails = wf] :
        i \in BOOLEAN, ct \in KindOptions, ss \in BOOLEAN,
        p \in {"ok", "unreadable", "not_json"}, wf \in BOOLEAN}

SignCmdCreds ==
    {[SampleCred EXCEPT !.agentName = an, !.subjectDid = "did:web:subject",
                        !.credentialIssuanceDate = DateTime(1, 0),
                        !.credentialExpirationDate = e,
                        !.issuanceDate = DateTime(1, 0),
                        !.expirationDate = e] :
        an \in BOOLEAN, e \in DateTimes \cup {DateAbsent}}

OutFileBefore == {"absent", "old"}

SignCmdInit ==
    /\ args \in SignCmdArgs
    /\ schemaValid \in {{}, {"Agent"}, {"Agent", "Developer"}}
    /\ cred \in SignCmdCreds
    /\ kind = "Agent" /\ opts = NoOpts /\ bcPc = "call" /\ bcRes = BuildFailed("pending")
    /\ sgKeyFile \in {MissingFile, PrivPem("ed1"), PubPem("ed1")}
    /\ sgAlg = "EdDsa" /\ sgKid = Some("key-1") /\ sgTyp = ""
    /\ sgRes = SignFailed("pending")
    /\ cmdPc = "read" /\ stdout = <<>> /\ exitCode = None
    /\ outFile \in OutFileBefore /\ privRead = FALSE /\ sigMade = FALSE
    /\ EngineOff /\ KindOff
    /\ SchemaOff /\ ToolsOff

SpecSignCmd == SignCmdInit /\ [][SignCmdNext]_vars

(* Properties of the sign command, checked under SpecSignCmd *)

\* the kind the run settles on, None when it cannot
ScKindOf ==
    IF IsSome(args.credential_type) THEN args.credential_type
    ELSE detect_credential_kind(cred)

ScIssuance(k) == IF k = "Agent" THEN cred.credentialIssuanceDate ELSE cred.issuanceDate
ScExpiration(k) == IF k = "Agent" THEN cred.credentialExpirationDate ELSE cred.expirationDate

ScSchemaFails == IsSome(ScKindOf) /\ ~args.skip_schema /\ Unwrap(ScKindOf) \notin schemaValid

ScExpNotAfterNbf ==
    /\ IsSome(ScKindOf)
    /\ ScIssuance(Unwrap(ScKindOf)).k = "date" /\ ScExpiration(Unwrap(ScKindOf)).k = "date"
    /\ Instant(ScExpiration(Unwrap(ScKindOf))) <= Instant(ScIssuance(Unwrap(ScKindOf)))

ScEarlierStepsPass ==
    /\ args.payload = "ok"
    /\ IsSome(ScKindOf)
    /\ ~ScSchemaFails
    /\ build_claims(cred, Unwrap(ScKindOf), ClaimsOptionsOf(args)).ok

ScKeyTouched == privRead \/ sigMade
ScOutTouched == outFile \notin OutFileBefore

\* C9: the sign command runs kind resolution, schema validation (unless
\* skipped), build_claims, key load and signing, output write, in that order,
\* and a failed step ends the run: the key is read and a signature made only
\* after the first three passed, the output file is touched only after a
\* signature was made, and when schema validation fails or exp <= nbf no key
\* is read, no signature is computed and the output file is left as it was.
C9_SignStepsInOrder ==
    /\ cmdPc \in {"read", "kind", "schema", "claims", "sign"}
          => ~ScKeyTouched /\ ~ScOutTouched
    /\ ScKeyTouched => ScEarlierStepsPass /\ cmdPc \in {"write", "done"}
    /\ sigMade => privRead
    /\ ScOutTouched => sigMade /\ cmdPc = "done"
    /\ (ScSchemaFails \/ ScExpNotAfterNbf) => ~ScKeyTouched /\ ~ScOutTouched

C9_Witness ==
    /\ cmdPc = "done" /\ exitCode = Some(1)
    /\ args.payload = "ok" /\ ~ScSchemaFails /\ ScExpNotAfterNbf
    /\ sgKeyFile = PrivPem("ed1") /\ outFile = "old"
    /\ ~privRead /\ ~sigMade

\* the explicit type and the kind detected from the payload are both present
\* and differ
ScKindConflict ==
    /\ IsSome(args.credential_type)
    /\ IsSome(detect_credential_kind(cred))
    /\ args.credential_type # detect_credential_kind(cred)

\* C11: a sign run whose explicit credential type differs from the kind
\* detected from the payload fails and produces no token: no signature is
\* made, the output file is not written, and the run ends with an error.
C11_ExplicitTypeConflictFails ==
    ScKindConflict =>
        /\ ~sigMade
        /\ ~ScOutTouched
        /\ cmdPc = "done" => exitCode = Some(1)

----------------------------------------------------------------------------
(* Properties of detect_credential_kind, checked under SpecKind *)

\* the credential's `$schema` is a string in which "/seg/" occurs
SchemaHint(seg) ==
    /\ cred.schema.k = "str"
    /\ \E i \in 1..(Len(cred.schema.segs) - 1) : cred.schema.segs[i] = seg

AgentFields == cred.agentName /\ cred.agentId # ABSENT
DeveloperFields == cred.legalName /\ cred.subjectDid # ABSENT

\* C12: detect_credential_kind gives Agent for a string `$schema` containing
\* "/agent/", else Developer for one containing "/developer/", else Agent
\* when agentName and agentId are both present, else Developer when legalName
\* and subjectDid are both present, else nothing; a matching `$schema` hint
\* wins over the field heuristics.
C12_DetectionPriority ==
    rkPc # "signals" =>
        /\ SchemaHint("agent") => rkDetected = Some("Agent")
        /\ ~SchemaHint("agent") /\ SchemaHint("developer") => rkDetected = Some("Developer")
        /\ ~SchemaHint("agent") /\ ~SchemaHint("developer") /\ AgentFields
              => rkDetected = Some("Agent")
        /\ ~SchemaHint("agent") /\ ~SchemaHint("developer") /\ ~AgentFields /\ DeveloperFields
              => rkDetected = Some("Developer")
        /\ ~SchemaHint("agent") /\ ~SchemaHint("developer") /\ ~AgentFields /\ ~DeveloperFields
              => rkDetected = None

\* a developer `$schema` on a payload that has the agent fields
C12_Witness ==
    /\ rkPc # "signals"
    /\ ~SchemaHint("agent") /\ SchemaHint("developer") /\ AgentFields
    /\ rkDetected = Some("Developer")

----------------------------------------------------------------------------
(* build_claims under every ClaimsOptions: an explicit issuer and subject   *)
(* or none, audience lists of zero to three values, and credentials whose   *)
(* subjectDid, agentId and issuerDid are absent, not strings, or strings.   *)

MaxAud == 3
AudNames == <<"b", "a", "c", "d">>
AudLists == {SubSeq(AudNames, 1, n) : n \in 0..MaxAud}

OptCreds ==
    {[SampleCred EXCEPT !.subjectDid = sd, !.agentId = ai, !.issuerDid = id,
                        !.credentialIssuanceDate = DateTime(1, 0),
                        !.credentialExpirationDate = e,
                        !.issuanceDate = DateTime(1, 0),
                        !.expirationDate = e] :
        sd \in {ABSENT, NONSTRING, "did:web:subject"},
        ai \in {ABSENT, NONSTRING, "agent-1"},
        id \in {ABSENT, "did:web:issuer"},
        e \in {DateTime(1, 0), DateTime(2, 0)}}

ClaimsOptions ==
    {[issuer |-> i, subject |-> su, audience |-> a] :
        i \in {None, Some("did:web:override")},
        su \in {None, Some("did:web:explicit")},
        a \in AudLists}

ClaimsOptsInit ==
    /\ cred \in OptCreds
    /\ kind \in Kinds
    /\ opts \in ClaimsOptions
    /\ bcPc = "call"
    /\ bcRes = BuildFailed("pending")
    /\ EngineOff /\ SignOff /\ KindOff /\ CmdOff
    /\ SchemaOff /\ ToolsOff

SpecClaimsOpts == ClaimsOptsInit /\ [][BuildClaimsCall]_vars

(* Properties of build_claims, checked under SpecClaimsOpts *)

IsString(v) == v \notin {ABSENT, NONSTRING}
NoSubjectSource == ~IsSome(opts.subject) /\ ~IsString(cred.subjectDid)
IssuerAvailable == IsSome(opts.issuer) \/ IsString(cred.issuerDid)

WrittenAud ==
    LET text == SerializeClaims(bcRes.claims)
    IN  IF HasMember(text, "aud") THEN Member(text, "aud") ELSE AudAbsent

\* C14: the claim set has no `aud` key when the audience list is empty, a
\* bare string when it has one value, and an array of all the values in the
\* given order when it has two or more.
C14_AudienceShape ==
    bcPc = "done" /\ bcRes.ok =>
        /\ Len(opts.audience) = 0 => ~HasMember(SerializeClaims(bcRes.claims), "aud")
        /\ Len(opts.audience) = 1
              => WrittenAud.k = "str" /\ WrittenAud.v = <<opts.audience[1]>>
        /\ Len(opts.audience) >= 2
              => WrittenAud.k = "arr" /\ WrittenAud.v = opts.audience

C14_Witness ==
    /\ bcPc = "done" /\ bcRes.ok
    /\ opts.audience = <<"b", "a">>
    /\ WrittenAud = AudArr(<<"b", "a">>)

----------------------------------------------------------------------------
(* The schema cache, src/schema.rs, and the schema command,                *)
(* src/commands/schema.rs.  Each process runs one operation: get_schema    *)
(* for one schema type, run_refresh for the types its flags name, or       *)
(* run_clear.  A process takes one file system or network call per step,   *)
(* so that the calls of two processes interleave.                          *)

notSchema == <<engineVars, claimVars, signVars, kindVars, cmdVars, toolVars>>

\* the schema type the process is working on
CurType(p) == Head(schTodo[p])

\* is_cache_valid: the file exists, its age can be computed (the modification
\* time is not later than the clock) and is less than CACHE_TTL
is_cache_valid_Inclusive(f) ==
    /\ f.k = "file"
    /\ schNow >= f.mtime
    /\ schNow - f.mtime <= CACHE_TTL

is_cache_valid(f) ==
    /\ f.k = "file"
    /\ schNow >= f.mtime
    /\ schNow - f.mtime < CACHE_TTL

\* read_cached_schema
read_cached_schema(f) ==
    IF ~is_cache_valid(f) THEN None ELSE ParseSchemaText(f.text)

\* fetch_schema_from_github under what the network does
fetch_schema_from_github(net, t) ==
    CASE net = "ok" -> SchOk(RemoteDoc(t))
      [] net = "unreachable" -> SchErr("failed to fetch schema")
      [] net = "http_error" -> SchErr("failed to fetch schema: HTTP status")
      [] OTHER -> SchErr("failed to parse schema")

\* get_schema steps 3 and 4 (schema.rs 152-177): the cache file whatever its
\* age when it can be read and parsed, else the embedded schema
StaleOrEmbedded_EmbeddedOnly(f, t) == SchOk(get_embedded_schema(t))

StaleOrEmbedded(f, t) ==
    IF f.k = "file" /\ IsSome(ParseSchemaText(f.text))
    THEN SchOk(Unwrap(ParseSchemaText(f.text)))
    ELSE SchOk(get_embedded_schema(t))

\* what get_schema returns after write_cached_schema ended with error werr
\* ("" for none): `let _ = write_cached_schema(..); Ok(schema)`
GetAfterWrite_Propagating(d, werr) == IF werr = "" THEN SchOk(d) ELSE SchErr(werr)

GetAfterWrite(d, werr) == SchOk(d)

\* what refresh_schema returns: `write_cached_schema(..)?; Ok(schema)`
RefreshAfterWrite(d, werr) == IF werr = "" THEN SchOk(d) ELSE SchErr(werr)

\* what refresh_schema returns when the fetch failed: `fetch_schema_from_github(..)?`
RefreshAfterFetchError_Fallback(f, t, r) == StaleOrEmbedded(f, t)

RefreshAfterFetchError(f, t, r) == r

\* clear_cache: `if cache_dir.exists()` (schema.rs 206)
CacheDirExists_Unchecked(dir) == TRUE

CacheDirExists(dir) == dir

\* fs::remove_dir_all fails on a directory that does not exist and when the
\* file system refuses the removal
RemoveFails(dir, io) == ~dir \/ io = "remove"

\* the library call returns res: get_schema ends the operation; run_refresh
\* prints "done" or "failed" for the type and goes on to the next one;
\* run_clear prints "done" or "failed"
SchReturn(p, res) ==
    /\ schRes' = [schRes EXCEPT ![p] = res]
    /\ IF schOp[p] = "refresh"
       THEN /\ schOut' = [schOut EXCEPT ![p] =
                             Append(@, <<CurType(p), IF res.ok THEN "done" ELSE "failed">>)]
            /\ schTodo' = [schTodo EXCEPT ![p] = Tail(@)]
            /\ schPc' = [schPc EXCEPT ![p] = IF Len(schTodo[p]) > 1 THEN "fetch" ELSE "done"]
       ELSE /\ schOut' = IF schOp[p] = "clear"
                         THEN [schOut EXCEPT ![p] =
                                  Append(@, <<"cache", IF res.ok THEN "done" ELSE "failed">>)]
                         ELSE schOut
            /\ schTodo' = schTodo
            /\ schPc' = [schPc EXCEPT ![p] = "done"]

\* write_cached_schema ends with error werr ("" for none)
WriteEnd(p, werr) ==
    SchReturn(p, IF schOp[p] = "get"
                 THEN GetAfterWrite(Unwrap(schDoc[p]), werr)
                 ELSE RefreshAfterWrite(Unwrap(schDoc[p]), werr))

\* get_schema step 1 (schema.rs 139-143): read_cached_schema
SchReadCache(p) ==
    /\ schPc[p] = "cache"
    /\ LET c == read_cached_schema(cacheFile[CurType(p)])
       IN  IF IsSome(c)
           THEN SchReturn(p, SchOk(Unwrap(c)))
           ELSE /\ schPc' = [schPc EXCEPT ![p] = "fetch"]
                /\ UNCHANGED <<schRes, schOut, schTodo>>
    /\ UNCHANGED <<cacheDir, cacheFile, schNow, schOp, schNet, schIo, schDoc,
                   schFetched, schWrote, notSchema>>

\* fetch_schema_from_github, in get_schema (146) and in refresh_schema (198)
SchFetch(p) ==
    /\ schPc[p] = "fetch"
    /\ schFetched' = [schFetched EXCEPT ![p] = @ \cup {CurType(p)}]
    /\ LET r == fetch_schema_from_github(schNet[p][CurType(p)], CurType(p))
       IN  IF r.ok
           THEN /\ schDoc' = [schDoc EXCEPT ![p] = Some(r.doc)]
                /\ schPc' = [schPc EXCEPT ![p] = "mkdir"]
                /\ UNCHANGED <<schRes, schOut, schTodo>>
           ELSE /\ schDoc' = [schDoc EXCEPT ![p] = None]
                /\ IF schOp[p] = "get"
                   THEN /\ schPc' = [schPc EXCEPT ![p] = "stale"]
                        /\ UNCHANGED <<schRes, schOut, schTodo>>
                   ELSE SchReturn(p, RefreshAfterFetchError(cacheFile[CurType(p)],
                                                            CurType(p), r))
    /\ UNCHANGED <<cacheDir, cacheFile, schNow, schOp, schNet, schIo, schWrote, notSchema>>

\* write_cached_schema: fs::create_dir_all(&cache_dir)
SchMkdir(p) ==
    /\ schPc[p] = "mkdir"
    /\ schWrote' = [schWrote EXCEPT ![p] = @ \cup {CurType(p)}]
    /\ IF schIo[p] = "mkdir"
       THEN /\ WriteEnd(p, "failed to create cache directory")
            /\ UNCHANGED cacheDir
       ELSE /\ cacheDir' = TRUE
            /\ schPc' = [schPc EXCEPT ![p] = "open"]
            /\ UNCHANGED <<schRes, schOut, schTodo>>
    /\ UNCHANGED <<cacheFile, schNow, schOp, schNet, schIo, schDoc, schFetched, notSchema>>

\* write_cached_schema: fs::write(&cache_path, content) opens the file,
\* creating it or truncating it to no bytes
SchOpen(p) ==
    /\ schPc[p] = "open"
    /\ IF schIo[p] = "open" \/ ~cacheDir
       THEN /\ WriteEnd(p, "failed to write cache file")
            /\ UNCHANGED cacheFile
       ELSE /\ cacheFile' = [cacheFile EXCEPT ![CurType(p)] = FileOf(EmptyText, schNow)]
            /\ schPc' = [schPc EXCEPT ![p] = "write"]
            /\ UNCHANGED <<schRes, schOut, schTodo>>
    /\ UNCHANGED <<cacheDir, schNow, schOp, schNet, schIo, schDoc, schFetched,
                   schWrote, notSchema>>

\* write_cached_schema: fs::write then writes the bytes into the open file.
\* A failing write leaves the bytes written so far; a file removed since
\* the open stays removed.
SchWrite(p) ==
    /\ schPc[p] = "write"
    /\ LET t == CurType(p)
           d == Unwrap(schDoc[p])
       IN  IF schIo[p] = "write"
           THEN /\ \E text \in {EmptyText, PartialText(d)} :
                      cacheFile' = [cacheFile EXCEPT ![t] =
                                       IF @.k = "absent" THEN @ ELSE FileOf(text, schNow)]
                /\ WriteEnd(p, "failed to write cache file")
           ELSE /\ cacheFile' = [cacheFile EXCEPT ![t] =
                                    IF @.k = "absent" THEN @
                                    ELSE FileOf(to_string_pretty(d), schNow)]
                /\ WriteEnd(p, "")
    /\ UNCHANGED <<cacheDir, schNow, schOp, schNet, schIo, schDoc, schFetched,
                   schWrote, notSchema>>

\* get_schema steps 3 and 4 (schema.rs 152-177)
SchStale(p) ==
    /\ schPc[p] = "stale"
    /\ SchReturn(p, StaleOrEmbedded(cacheFile[CurType(p)], CurType(p)))
    /\ UNCHANGED <<cacheDir, cacheFile, schNow, schOp, schNet, schIo, schDoc,
                   schFetched, schWrote, notSchema>>

\* clear_cache, called by run_clear
SchClear(p) ==
    /\ schPc[p] = "clear"
    /\ IF CacheDirExists(cacheDir) /\ RemoveFails(cacheDir, schIo[p])
       THEN /\ SchReturn(p, SchErr("failed to remove cache directory"))
            /\ UNCHANGED <<cacheDir, cacheFile>>
       ELSE /\ cacheDir' = FALSE
            /\ cacheFile' = [t \in SchemaTypes |-> NoFile]
            /\ SchReturn(p, SchOk(NoDoc))
    /\ UNCHANGED <<schNow, schOp, schNet, schIo, schDoc, schFetched, schWrote, notSchema>>

SchemaNext ==
    \E p \in Procs :
        \/ SchReadCache(p)
        \/ SchFetch(p)
        \/ SchMkdir(p)
        \/ SchOpen(p)
        \/ SchWrite(p)
        \/ SchStale(p)
        \/ SchClear(p)

(* Inputs: cache files of every age around the TTL, with a modification    *)
(* time at, before or after the clock, holding JSON or not; every network  *)
(* outcome; every file system fault.                                       *)

CacheAges == Deltas \cup {CACHE_TTL + d : d \in Deltas}
CacheTexts == {to_string_pretty(OlderDoc("Agent")), GarbageText, UnreadableText, EmptyText}
NetOutcomes == {"ok", "unreachable", "http_error"}
IoFaults == {"none", "mkdir", "open", "write", "remove"}

\* the schema types run_refresh works on for its two flags (schema.rs 104-124)
RefreshList(agent_only, developer_only) ==
    LET refresh_both == ~agent_only /\ ~developer_only
    IN  (IF refresh_both \/ agent_only THEN <<"Agent">> ELSE <<>>)
        \o (IF refresh_both \/ developer_only THEN <<"Developer">> ELSE <<>>)

\* the operations a process may run: <<operation, schema types, first position>>
SchOperations ==
    {<<"get", <<t>>, "cache">> : t \in SchemaTypes}
    \cup {<<"refresh", RefreshList(a, d), "fetch">> : a \in BOOLEAN, d \in BOOLEAN}
    \cup {<<"clear", <<>>, "clear">>}

\* the state of the cache directory before the operations start
SchCacheInit ==
    /\ schNow = BaseTime + CACHE_TTL
    /\ \E fa \in {NoFile} \cup {FileOf(x, schNow - a) : x \in CacheTexts, a \in CacheAges},
          fd \in {NoFile, FileOf(to_string_pretty(OlderDoc("Developer")), schNow)} :
          cacheFile = [t \in SchemaTypes |-> IF t = "Agent" THEN fa ELSE fd]
    /\ cacheDir \in BOOLEAN
    /\ (\E t \in SchemaTypes : cacheFile[t].k = "file") => cacheDir

SchProcInit(ops) ==
    /\ schOp = [p \in Procs |-> ops[p][1]]
    /\ schTodo = [p \in Procs |-> ops[p][2]]
    /\ schPc = [p \in Procs |-> ops[p][3]]
    /\ schDoc = [p \in Procs |-> None] /\ schRes = [p \in Procs |-> SchPending]
    /\ schFetched = [p \in Procs |-> {}] /\ schWrote = [p \in Procs |-> {}]
    /\ schOut = [p \in Procs |-> <<>>]

\* one process alone
SchemaInit ==
    /\ SchCacheInit
    /\ \E o \in SchOperations :
          SchProcInit([p \in Procs |-> IF p = "p1" THEN o ELSE <<"none", <<>>, "done">>])
    /\ schNet \in [Procs -> [SchemaTypes -> NetOutcomes]]
    /\ schNet["p2"] = [t \in SchemaTypes |-> "ok"]
    /\ schIo \in [Procs -> IoFaults]
    /\ schIo["p2"] = "none"
    /\ EngineOff /\ ClaimsOff /\ SignOff /\ KindOff /\ CmdOff /\ ToolsOff

SpecSchema == SchemaInit /\ [][SchemaNext]_vars

(* Properties of get_schema, checked under SpecSchema *)

\* process p takes the first step of get_schema
ReadsCache(p) == schOp[p] = "get" /\ schPc[p] = "cache" /\ schPc'[p] # "cache"

\* the step returned the content of file f and neither fetched nor wrote
ServedFromCache(p, f) ==
    /\ schPc'[p] = "done"
    /\ schRes'[p] = SchOk(f.text.doc)
    /\ schFetched'[p] = {} /\ schWrote'[p] = {}
    /\ UNCHANGED <<cacheDir, cacheFile>>

FileParses(f) == f.k = "file" /\ f.text.k = "json"

\* C15 as stated: a cache file that exists, whose modification time is less
\* than 24 hours before the clock (a modification time after the clock
\* included) and that parses is returned by get_schema with no fetch and no
\* cache write; one of age 24 hours or more is not served by the first step.
C15_FreshCacheServed ==
    [][\A p \in Procs : ReadsCache(p) =>
          LET f == cacheFile[CurType(p)]
          IN  /\ FileParses(f) /\ schNow - f.mtime < CACHE_TTL => ServedFromCache(p, f)
              /\ f.k = "file" /\ schNow - f.mtime >= CACHE_TTL => schPc'[p] = "fetch"]_vars

\* C15 amended: a cache file that exists, whose modification time is not
\* later than the clock and less than 24 hours before it, and that parses is
\* returned by get_schema with no fetch and no cache write; a file of age 24
\* hours or more, or modified after the clock, is not served by the first
\* step.
C15_FreshCacheServedUnlessFuture ==
    [][\A p \in Procs : ReadsCache(p) =>
          LET f == cacheFile[CurType(p)]
          IN  /\ FileParses(f) /\ f.mtime <= schNow /\ schNow - f.mtime < CACHE_TTL
                    => ServedFromCache(p, f)
              /\ f.k = "file" /\ (schNow - f.mtime >= CACHE_TTL \/ f.mtime > schNow)
                    => schPc'[p] = "fetch"]_vars

\* a parsable file one second younger than 24 hours was served
C15_Witness ==
    /\ schOp["p1"] = "get" /\ schPc["p1"] = "done" /\ schTodo["p1"] = <<"Agent">>
    /\ cacheFile["Agent"] = FileOf(to_string_pretty(OlderDoc("Agent")), schNow - (CACHE_TTL - 1))
    /\ schRes["p1"] = SchOk(OlderDoc("Agent"))
    /\ schFetched["p1"] = {} /\ schWrote["p1"] = {}

\* process p ran get_schema for one schema type and it has returned
GetDone(p) == schOp[p] = "get" /\ schPc[p] = "done"
GetType(p) == schTodo[p][1]

\* C16: with a failing network get_schema never returns an error: it returns
\* the cached document when the cache file exists and parses, whatever its
\* age, and the embedded schema otherwise, for every state of the cache.
C16_FetchFailureFallsBack ==
    \A p \in Procs :
        GetDone(p) /\ schNet[p][GetType(p)] # "ok" =>
            LET f == cacheFile[GetType(p)]
            IN  /\ schRes[p].ok
                /\ schWrote[p] = {}
                /\ FileParses(f) => schRes[p].doc = f.text.doc
                /\ ~FileParses(f) => schRes[p].doc = get_embedded_schema(GetType(p))

\* the network is unreachable and the cache file is a second older than 24 hours
C16_Witness ==
    /\ GetDone("p1") /\ GetType("p1") = "Agent" /\ schNet["p1"]["Agent"] = "unreachable"
    /\ cacheFile["Agent"] = FileOf(to_string_pretty(OlderDoc("Agent")), schNow - (CACHE_TTL + 1))
    /\ schFetched["p1"] = {"Agent"}
    /\ schRes["p1"] = SchOk(OlderDoc("Agent"))

\* C17: when the cache is not fresh and the fetch succeeds, get_schema
\* returns the fetched document and tries to overwrite the cache file; a
\* failure to create the directory or to write the file neither makes
\* get_schema fail nor changes the document returned.
C17_FetchedDocumentReturned ==
    \A p \in Procs :
        GetDone(p) /\ schNet[p][GetType(p)] = "ok" =>
            LET t == GetType(p)
            IN  /\ schRes[p].ok
                /\ schFetched[p] = {} => read_cached_schema(cacheFile[t]) = Some(schRes[p].doc)
                /\ schFetched[p] # {} =>
                      /\ schRes[p] = SchOk(RemoteDoc(t))
                      /\ t \in schWrote[p]
                      /\ schIo[p] \notin {"mkdir", "open", "write"}
                            => cacheFile[t] = FileOf(to_string_pretty(RemoteDoc(t)), schNow)

\* the write broke off and the fetched document was returned all the same
C17_Witness ==
    /\ GetDone("p1") /\ GetType("p1") = "Agent" /\ schNet["p1"]["Agent"] = "ok"
    /\ schIo["p1"] = "write" /\ "Agent" \in schWrote["p1"]
    /\ cacheFile["Agent"].text # to_string_pretty(RemoteDoc("Agent"))
    /\ schRes["p1"] = SchOk(RemoteDoc("Agent"))

(* Properties of refresh_schema and run_refresh, checked under SpecSchema *)

\* a call of refresh_schema by process p returns in this step
RefreshReturns(p) == schOp[p] = "refresh" /\ Len(schOut'[p]) = Len(schOut[p]) + 1

\* C18: refresh_schema always sends the request, whatever the cache holds,
\* never returns the cached or the embedded schema, and returns the fetch
\* error when the fetch fails; run_refresh reports "failed" for each schema
\* type whose refresh failed.
C18_RefreshAlwaysFetches ==
    [][\A p \in Procs : RefreshReturns(p) =>
          LET t == CurType(p)
              r == schRes'[p]
          IN  /\ t \in schFetched'[p]
              /\ r.ok => r.doc = RemoteDoc(t) /\ schNet[p][t] = "ok"
              /\ schNet[p][t] # "ok"
                    => ~r.ok /\ r = fetch_schema_from_github(schNet[p][t], t)
              /\ schOut'[p][Len(schOut'[p])] = <<t, IF r.ok THEN "done" ELSE "failed">>]_vars

\* both types were asked for, the cache is fresh, and both refreshes failed
C18_Witness ==
    /\ schOp["p1"] = "refresh" /\ schPc["p1"] = "done"
    /\ schOut["p1"] = << <<"Agent", "failed">>, <<"Developer", "failed">> >>
    /\ schFetched["p1"] = {"Agent", "Developer"}
    /\ read_cached_schema(cacheFile["Agent"]) = Some(OlderDoc("Agent"))
    /\ ~schRes["p1"].ok

----------------------------------------------------------------------------
(* Two processes using the cache directory at the same time: each runs     *)
(* get_schema or run_refresh for the agent schema, or run_clear.           *)

ConcOperations ==
    {<<"get", <<"Agent">>, "cache">>, <<"refresh", RefreshList(TRUE, FALSE), "fetch">>,
     <<"clear", <<>>, "clear">>}

SchemaConcInit ==
    /\ schNow = BaseTime + CACHE_TTL
    /\ \E f \in {NoFile} \cup {FileOf(to_string_pretty(OlderDoc("Agent")), schNow - a) :
                                  a \in {0, CACHE_TTL}} :
          cacheFile = [t \in SchemaTypes |-> IF t = "Agent" THEN f ELSE NoFile]
    /\ cacheDir \in BOOLEAN
    /\ cacheFile["Agent"].k = "file" => cacheDir
    /\ \E o1 \in ConcOperations, o2 \in ConcOperations :
          SchProcInit([p \in Procs |-> IF p = "p1" THEN o1 ELSE o2])
    /\ \E n \in {"ok", "unreachable"} :
          schNet = [p \in Procs |-> [t \in SchemaTypes |-> IF p = "p1" THEN n ELSE "ok"]]
    /\ schIo \in [Procs -> {"none", "remove"}]
    /\ EngineOff /\ ClaimsOff /\ SignOff /\ KindOff /\ CmdOff /\ ToolsOff

SpecSchemaConc == SchemaConcInit /\ [][SchemaNext]_vars

(* Properties of clear_cache and of the cache file, checked under SpecSchemaConc *)

\* process p's call of clear_cache returns in this step
ClearReturns(p) == schPc[p] = "clear" /\ schPc'[p] = "done"

NoCacheFiles == \A t \in SchemaTypes : cacheFile[t] = NoFile

C20_CacheFileNeverPartial ==
    \A t \in SchemaTypes : cacheFile[t].k = "absent" \/ cacheFile[t].text.k = "json"

(* ------------------------------------------------------------------------ *)
(* HTTP request signing: src/commands/http_sign.rs                          *)
(* ------------------------------------------------------------------------ *)

\* the longest explicit --component list tried
MaxComponents == 2

\* --expires-in default
DefaultExpiresIn == 60

\* str::to_lowercase and str::to_uppercase on the strings that occur
to_lowercase(str) ==
    CASE str = "Content-Type" -> "content-type"
      [] str = "Content-Digest" -> "content-digest"
      [] str = "GET" -> "get"
      [] str = "Post" -> "post"
      [] OTHER -> str
to_uppercase(str) ==
    CASE str = "get" -> "GET"
      [] str = "Post" -> "POST"
      [] OTHER -> str

\* SHA-256 and base64url without padding, as injective string functions
Sha256(bytes) == "sha256(" \o bytes \o ")"
URL_SAFE_NO_PAD(bytes) == "b64(" \o bytes \o ")"

\* Ed25519: the public key bytes of a key pair, and the deterministic signature
PublicBytes(k) == "pub(" \o k \o ")"
Ed25519Sign(k, msg) == "sig(" \o k \o "," \o msg \o ")"

\* SigningKey::from_pkcs8_pem: only a PKCS#8 Ed25519 private key parses
from_pkcs8_pem(file) ==
    IF file.kind = "priv" /\ file.fam = "ED" THEN Some(file.key) ELSE None

\* http_sign.rs compute_jwk_thumbprint, from the key pair's verifying key
http_sign_compute_jwk_thumbprint_KtyFirst(k) ==
    LET x == URL_SAFE_NO_PAD(PublicBytes(k))
        canonical == "{\"kty\":\"OKP\",\"crv\":\"Ed25519\",\"x\":\"" \o x \o "\"}"
    IN  URL_SAFE_NO_PAD(Sha256(canonical))

http_sign_compute_jwk_thumbprint(k) ==
    LET x == URL_SAFE_NO_PAD(PublicBytes(k))
        canonical == "{\"crv\":\"Ed25519\",\"kty\":\"OKP\",\"x\":\"" \o x \o "\"}"
    IN  URL_SAFE_NO_PAD(Sha256(canonical))

compute_content_digest(bytes) == "sha-256=:" \o URL_SAFE_NO_PAD(Sha256(bytes)) \o ":"

\* HashMap<String, String>
EmptyMap == [n \in {} |-> ""]
MapInsert(m, n, v) == [k \in DOMAIN m \cup {n} |-> IF k = n THEN v ELSE m[k]]
MapGet(m, n) == IF n \in DOMAIN m THEN Some(m[n]) ELSE None

\* one --header argument: "Name: Value", or a string without a colon
HeaderArg(n, v) == [colon |-> TRUE, name |-> n, value |-> v]
NoColonArg == [colon |-> FALSE, name |-> "", value |-> ""]

\* lines 113-120: the header map, names lower-cased, a later argument replacing
\* an earlier one of the same lower-cased name; None when an argument has no colon
RECURSIVE parse_headers(_, _)
parse_headers(hs, m) ==
    IF hs = <<>> THEN Some(m)
    ELSE IF ~Head(hs).colon THEN None
    ELSE parse_headers(Tail(hs), MapInsert(m, to_lowercase(Head(hs).name), Head(hs).value))

\* url::Url::parse and the parts run takes from it
GoodUrl == [valid |-> TRUE, text |-> "https://api.example:8443/orders?id=7",
            scheme |-> "https", host |-> Some("api.example"), port |-> Some("8443"),
            path |-> "/orders", query |-> Some("id=7")]
PlainUrl == [valid |-> TRUE, text |-> "https://api.example/", scheme |-> "https",
             host |-> Some("api.example"), port |-> None, path |-> "/", query |-> None]
BadUrl == [valid |-> FALSE, text |-> "not a url", scheme |-> "", host |-> None,
           port |-> None, path |-> "", query |-> None]
HostlessUrl == [valid |-> TRUE, text |-> "data:text/plain,x", scheme |-> "data",
                host |-> None, port |-> None, path |-> "text/plain,x", query |-> None]
Authority(u) ==
    IF IsSome(u.port) THEN Unwrap(u.host) \o ":" \o Unwrap(u.port) ELSE Unwrap(u.host)
QueryOf(u) == IF IsSome(u.query) THEN "?" \o Unwrap(u.query) ELSE ""

\* --key-directory
KeyDirectory(scheme) ==
    [scheme |-> scheme,
     text |-> scheme \o "://agent.example/.well-known/http-message-signatures-directory"]

\* lines 123-129: the body file when given, else the inline body
BodyFile(t) == [readable |-> TRUE, text |-> t]
UnreadableBodyFile == [readable |-> FALSE, text |-> ""]
BodyOf(a) == IF IsSome(a.body_file) THEN Some(Unwrap(a.body_file).text) ELSE a.body

\* lines 137-146
DefaultComponents == <<"@method", "@authority", "@path", "signature-agent">>
ListedComponents(a) == IF a.component = <<>> THEN DefaultComponents ELSE a.component

\* lines 149-157: "Ensure required components"
EnsureRequiredComponents_Appending(cs, hasBody) ==
    LET a == IF "@authority" \in Range(cs) THEN cs ELSE Append(cs, "@authority")
        b == IF "signature-agent" \in Range(a) THEN a ELSE Append(a, "signature-agent")
    IN  IF hasBody THEN Append(b, "content-digest") ELSE b

EnsureRequiredComponents(cs, hasBody) ==
    LET a == IF "@authority" \in Range(cs) THEN cs ELSE <<"@authority">> \o cs
        b == IF "signature-agent" \in Range(a) THEN a ELSE Append(a, "signature-agent")
    IN  IF hasBody /\ "content-digest" \notin Range(b)
        THEN Append(b, "content-digest") ELSE b

\* lines 173-177
RECURSIVE join_Terminated(_, _)
join_Terminated(strs, sep) ==
    IF strs = <<>> THEN "" ELSE strs[1] \o sep \o join_Terminated(Tail(strs), sep)

RECURSIVE join(_, _)
join(strs, sep) ==
    IF strs = <<>> THEN ""
    ELSE IF Len(strs) = 1 THEN strs[1]
    ELSE strs[1] \o sep \o join(Tail(strs), sep)

Quoted(str) == "\"" \o str \o "\""
ComponentList(cs) == join([i \in 1..Len(cs) |-> Quoted(cs[i])], " ")
SignatureParams(cs, keyid, created, expires, nonce) ==
    [components |-> cs, alg |-> "ed25519", keyid |-> keyid, created |-> created,
     expires |-> expires, nonce |-> nonce, tag |-> "web-bot-auth"]
FormatParams(q) ==
    "(" \o ComponentList(q.components) \o ");alg=" \o Quoted(q.alg)
        \o ";keyid=" \o Quoted(q.keyid) \o ";created=" \o ToString(q.created)
        \o ";expires=" \o ToString(q.expires) \o ";nonce=" \o Quoted(q.nonce)
        \o ";tag=" \o Quoted(q.tag)

\* lines 182-197: the value of one component (None: not found in headers)
DerivedComponents ==
    {"@method", "@authority", "@scheme", "@path", "@query", "@target-uri",
     "@request-target", "signature-agent"}
HeaderLookup(headers, component) == MapGet(headers, component)
ComponentValue(component, a, headers) ==
    CASE component = "@method" -> Some(to_uppercase(a.method))
      [] component = "@authority" -> Some(Authority(a.url))
      [] component = "@scheme" -> Some(a.url.scheme)
      [] component = "@path" -> Some(a.url.path)
      [] component = "@query" ->
            Some(IF QueryOf(a.url) = "" THEN "?" ELSE QueryOf(a.url))
      [] component = "@target-uri" -> Some(a.url.text)
      [] component = "@request-target" ->
            Some(to_lowercase(a.method) \o " " \o a.url.path \o QueryOf(a.url))
      [] component = "signature-agent" -> Some(Quoted(a.key_directory.text))
      [] OTHER -> HeaderLookup(headers, component)

\* lines 180-201: the lines of the signature base, as (identifier, value) pairs
BaseLine(id, value) == [id |-> id, value |-> value]
LineText(l) == Quoted(l.id) \o ": " \o l.value
MissingComponents(cs, a, headers) ==
    {i \in 1..Len(cs) : ~IsSome(ComponentValue(cs[i], a, headers))}
signature_base_lines(cs, a, headers, q) ==
    Append([i \in 1..Len(cs) |-> BaseLine(cs[i], Unwrap(ComponentValue(cs[i], a, headers)))],
           BaseLine("@signature-params", FormatParams(q)))
signature_base(lines) == join([i \in 1..Len(lines) |-> LineText(lines[i])], "\n")

\* one printed header
Emitted(n, v) == [name |-> n, value |-> v]
EmittedNames == {hsOut[i].name : i \in 1..Len(hsOut)}
EmittedValue(n) == hsOut[CHOOSE i \in 1..Len(hsOut) : hsOut[i].name = n].value

\* lines 217-219 and 230-232: which Content-Digest is printed
DigestToEmit(headers, bodyOpt) == MapGet(headers, "content-digest")

notHttp == <<coreVars, dirVars, memVars, lockVars, sbVars>>

HsFail(e) == hsRes' = e /\ hsPc' = "done"

\* lines 77-97
HsLoadKey ==
    /\ hsPc = "key"
    /\ IF hsArgs.key_directory.scheme # "https"
       THEN HsFail("key-directory must be an HTTPS URL")
       ELSE IF hsArgs.key.kind = "missing"
       THEN HsFail("failed to read key file")
       ELSE IF ~IsSome(from_pkcs8_pem(hsArgs.key))
       THEN HsFail("failed to parse Ed25519 private key")
       ELSE hsPc' = "url" /\ UNCHANGED hsRes
    /\ UNCHANGED <<hsArgs, hsEnv, hsHeaders, hsBody, hsComponents, hsParams, hsBase,
                   hsOut, notHttp>>

\* lines 99-120
HsParse ==
    /\ hsPc = "url"
    /\ IF ~hsArgs.url.valid
       THEN HsFail("invalid URL") /\ UNCHANGED hsHeaders
       ELSE IF ~IsSome(hsArgs.url.host)
       THEN HsFail("URL must have a host") /\ UNCHANGED hsHeaders
       ELSE LET m == parse_headers(hsArgs.header, EmptyMap)
            IN  IF IsSome(m)
                THEN hsHeaders' = Unwrap(m) /\ hsPc' = "body" /\ UNCHANGED hsRes
                ELSE HsFail("invalid header format") /\ UNCHANGED hsHeaders
    /\ UNCHANGED <<hsArgs, hsEnv, hsBody, hsComponents, hsParams, hsBase, hsOut, notHttp>>

\* lines 122-134
HsBody ==
    /\ hsPc = "body"
    /\ IF IsSome(hsArgs.body_file) /\ ~Unwrap(hsArgs.body_file).readable
       THEN HsFail("failed to read body file") /\ UNCHANGED <<hsBody, hsHeaders>>
       ELSE /\ hsBody' = BodyOf(hsArgs)
            /\ hsHeaders' = IF IsSome(hsBody')
                            THEN MapInsert(hsHeaders, "content-digest",
                                           compute_content_digest(Unwrap(hsBody')))
                            ELSE hsHeaders
            /\ hsPc' = "components" /\ UNCHANGED hsRes
    /\ UNCHANGED <<hsArgs, hsEnv, hsComponents, hsParams, hsBase, hsOut, notHttp>>

\* lines 136-157
HsComponents ==
    /\ hsPc = "components"
    /\ hsComponents' = EnsureRequiredComponents(ListedComponents(hsArgs), IsSome(hsBody))
    /\ hsPc' = "base"
    /\ UNCHANGED <<hsArgs, hsEnv, hsHeaders, hsBody, hsParams, hsBase, hsOut, hsRes,
                   notHttp>>

\* lines 159-201
HsBase ==
    /\ hsPc = "base"
    /\ LET q == SignatureParams(hsComponents,
                    http_sign_compute_jwk_thumbprint(Unwrap(from_pkcs8_pem(hsArgs.key))),
                    hsEnv.now, hsEnv.now + hsArgs.expires_in, hsEnv.nonce)
       IN  /\ hsParams' = Some(q)
           /\ IF MissingComponents(hsComponents, hsArgs, hsHeaders) # {}
              THEN HsFail("component not found in headers") /\ UNCHANGED hsBase
              ELSE /\ hsBase' = signature_base(
                                   signature_base_lines(hsComponents, hsArgs, hsHeaders, q))
                   /\ hsPc' = "sign" /\ UNCHANGED hsRes
    /\ UNCHANGED <<hsArgs, hsEnv, hsHeaders, hsBody, hsComponents, hsOut, notHttp>>

\* lines 203-248; the curl format also prints the other headers, in the
\* HashMap's iteration order
HsOutput ==
    /\ hsPc = "sign"
    /\ LET sig == URL_SAFE_NO_PAD(Ed25519Sign(Unwrap(from_pkcs8_pem(hsArgs.key)), hsBase))
           d == DigestToEmit(hsHeaders, hsBody)
           main == <<Emitted("Signature-Agent", Quoted(hsArgs.key_directory.text)),
                     Emitted("Signature-Input", "sig1=" \o FormatParams(Unwrap(hsParams))),
                     Emitted("Signature", "sig1=:" \o sig \o ":")>>
                   \o (IF IsSome(d) THEN <<Emitted("Content-Digest", Unwrap(d))>> ELSE <<>>)
           others == DOMAIN hsHeaders \ {"content-digest"}
       IN  IF hsArgs.format = "headers"
           THEN hsOut' = main
           ELSE \E order \in [1..Cardinality(others) -> others] :
                   /\ Range(order) = others
                   /\ hsOut' = main \o [i \in 1..Cardinality(others) |->
                                           Emitted(order[i], hsHeaders[order[i]])]
    /\ hsRes' = "ok" /\ hsPc' = "done"
    /\ UNCHANGED <<hsArgs, hsEnv, hsHeaders, hsBody, hsComponents, hsParams, hsBase,
                   notHttp>>

HttpSignNext ==
    \/ HsLoadKey
    \/ HsParse
    \/ HsBody
    \/ HsComponents
    \/ HsBase
    \/ HsOutput

(* Inputs *)

ComponentNames ==
    {"@method", "@authority", "signature-agent", "content-digest", "content-type",
     "Content-Type"}
RECURSIVE SeqsUpTo(_, _)
SeqsUpTo(S, n) ==
    IF n = 0 THEN {<<>>}
    ELSE LET shorter == SeqsUpTo(S, n - 1)
         IN  shorter \cup {Append(q, x) : q \in shorter, x \in S}
HeaderLists ==
    {<<>>, <<HeaderArg("content-type", "text/plain")>>,
     <<HeaderArg("Content-Type", "application/json")>>,
     <<HeaderArg("Content-Digest", "sha-256=:caller:")>>,
     <<HeaderArg("content-type", "text/plain"), HeaderArg("Content-Type", "application/json")>>,
     <<HeaderArg("Content-Type", "application/json"), HeaderArg("x-trace", "7")>>,
     <<NoColonArg>>}
DefaultHsArgs ==
    [method |-> "get", url |-> GoodUrl, key |-> PrivPem("ed1"),
     key_directory |-> KeyDirectory("https"), header |-> <<>>, component |-> <<>>,
     body |-> None, body_file |-> None, expires_in |-> DefaultExpiresIn,
     format |-> "headers"]
HttpSignArgs ==
    {[DefaultHsArgs EXCEPT !.component = cs, !.header = hs, !.body = b, !.body_file = bf,
                           !.format = f] :
        cs \in SeqsUpTo(ComponentNames, MaxComponents), hs \in HeaderLists,
        b \in {None, Some("inline body")},
        bf \in {None, Some(BodyFile("file body")), Some(UnreadableBodyFile)},
        f \in {"headers", "curl"}}
    \cup {[DefaultHsArgs EXCEPT !.key = k] :
            k \in {MissingFile, PubPem("ed1"), PrivPem("es1"), Sec1Pem("es1"),
                   PrivPem("ed2")}}
    \cup {[DefaultHsArgs EXCEPT !.key_directory = KeyDirectory("http")],
          [DefaultHsArgs EXCEPT !.url = BadUrl], [DefaultHsArgs EXCEPT !.url = HostlessUrl],
          [DefaultHsArgs EXCEPT !.url = PlainUrl, !.method = "Post",
                                !.component = <<"@query", "@request-target", "@scheme",
                                                "@path", "@target-uri">>]}

HsStart(a) ==
    /\ hsArgs = a /\ hsEnv = [now |-> BaseTime, nonce |-> "nonce-1"]
    /\ hsPc = "key" /\ hsHeaders = EmptyMap /\ hsBody = None /\ hsComponents = <<>>
    /\ hsParams = None /\ hsBase = "" /\ hsOut = <<>> /\ hsRes = "pending"

CoreOff == EngineOff /\ ClaimsOff /\ SignOff /\ KindOff /\ CmdOff /\ SchemaOff

HttpSignInit ==
    /\ \E a \in HttpSignArgs : HsStart(a)
    /\ CoreOff /\ DirOff /\ MemOff /\ LockOff /\ SandboxOff

SpecHttpSign == HttpSignInit /\ [][HttpSignNext]_vars

(* Properties of http-sign, checked under SpecHttpSign *)

\* the component list has been decided (lines 137-157 have run)
ComponentsDecided == hsComponents # <<>>
\* how many components were put in front of the listed ones
FrontAdded == IF "@authority" \in Range(ListedComponents(hsArgs)) THEN 0 ELSE 1
\* the components put behind the listed ones
BackAdded ==
    SubSeq(hsComponents, FrontAdded + Len(ListedComponents(hsArgs)) + 1, Len(hsComponents))

\* C21: the signed component list always contains @authority and
\* signature-agent, and content-digest when a body is present; the listed
\* components are kept in their order, a missing @authority is added in front,
\* missing signature-agent and content-digest behind, and nothing that is
\* already listed is added.
C21_RequiredComponentsForced ==
    ComponentsDecided =>
        LET listed == ListedComponents(hsArgs)
        IN  /\ "@authority" \in Range(hsComponents)
            /\ "signature-agent" \in Range(hsComponents)
            /\ IsSome(BodyOf(hsArgs)) => "content-digest" \in Range(hsComponents)
            /\ Len(hsComponents) >= FrontAdded + Len(listed)
            /\ SubSeq(hsComponents, FrontAdded + 1, FrontAdded + Len(listed)) = listed
            /\ FrontAdded = 1 => hsComponents[1] = "@authority"
            /\ Range(BackAdded) \subseteq {"signature-agent", "content-digest"} \ Range(listed)
            /\ Cardinality(Range(BackAdded)) = Len(BackAdded)

C21_Witness ==
    /\ hsArgs.component = <<"content-type", "@method">>
    /\ hsComponents = <<"@authority", "content-type", "@method", "signature-agent",
                        "content-digest">>
    /\ hsPc = "sign"

\* the signature base has been built (lines 180-201 have run without error)
BaseBuilt == hsPc = "sign" \/ hsRes = "ok"
Ed25519Verify(k, msg, sig) == sig = Ed25519Sign(k, msg)
SwapAt(cs, i, j) == [cs EXCEPT ![i] = cs[j], ![j] = cs[i]]
\* the signature base for the same request with the component list cs declared
BaseDeclaring(cs) ==
    signature_base(signature_base_lines(cs, hsArgs, hsHeaders,
                                        [Unwrap(hsParams) EXCEPT !.components = cs]))
\* one line per component, each ended by a newline, then the text `last`
RECURSIVE LinePerComponent(_, _)
LinePerComponent(cs, last) ==
    IF cs = <<>> THEN last
    ELSE "\"" \o Head(cs) \o "\": " \o Unwrap(ComponentValue(Head(cs), hsArgs, hsHeaders))
            \o "\n" \o LinePerComponent(Tail(cs), last)

\* C22: the signature base has one line per signed component, in the order of
\* the component list of @signature-params, then the @signature-params line
\* and no trailing newline; with two distinct components swapped in the
\* declared list the base differs and the signature does not verify against it.
C22_BaseFollowsDeclaredOrder ==
    BaseBuilt =>
        LET q == Unwrap(hsParams)
            k == Unwrap(from_pkcs8_pem(hsArgs.key))
        IN  /\ q.components = hsComponents
            /\ hsBase = LinePerComponent(q.components,
                                         "\"@signature-params\": " \o FormatParams(q))
            /\ \A i, j \in 1..Len(hsComponents) :
                  hsComponents[i] # hsComponents[j] =>
                      /\ BaseDeclaring(SwapAt(hsComponents, i, j)) # hsBase
                      /\ ~Ed25519Verify(k, BaseDeclaring(SwapAt(hsComponents, i, j)),
                                        Ed25519Sign(k, hsBase))
            /\ hsRes = "ok" =>
                  EmittedValue("Signature")
                      = "sig1=:" \o URL_SAFE_NO_PAD(Ed25519Sign(k, hsBase)) \o ":"

C22_Witness ==
    /\ hsRes = "ok"
    /\ hsComponents = <<"@authority", "content-type", "@method", "signature-agent">>

\* a header of the component's name, letter case ignored, was supplied (the
\* digest of a supplied body counts as the content-digest header)
HeaderSupplied(c) ==
    \/ \E i \in 1..Len(hsArgs.header) :
          to_lowercase(hsArgs.header[i].name) = to_lowercase(c)
    \/ to_lowercase(c) = "content-digest" /\ IsSome(hsBody)
HeaderComponents == Range(hsComponents) \ DerivedComponents
\* the component values have been looked up (lines 180-199 have run)
LookupDone == IsSome(hsParams)

\* C23: a header component takes the value of the supplied header of the same
\* name ignoring letter case; when no such header was supplied the run fails
\* and prints neither Signature nor Signature-Input.
C23_HeaderLookupIgnoresCase ==
    LookupDone =>
        /\ (\A c \in HeaderComponents : HeaderSupplied(c)) =>
              hsRes # "component not found in headers"
        /\ (\E c \in HeaderComponents : ~HeaderSupplied(c)) =>
              /\ hsRes = "component not found in headers"
              /\ EmittedNames \cap {"Signature", "Signature-Input"} = {}

\* C24: Content-Digest is printed exactly when a body was supplied, and its
\* value is the digest of that body, never a header value the caller gave.
C24_ContentDigestOnlyFromBody ==
    hsRes = "ok" =>
        /\ "Content-Digest" \in EmittedNames <=> IsSome(BodyOf(hsArgs))
        /\ "Content-Digest" \in EmittedNames =>
              EmittedValue("Content-Digest")
                  = compute_content_digest(Unwrap(BodyOf(hsArgs)))

(* ------------------------------------------------------------------------ *)
(* Key directory: src/commands/directory.rs                                 *)
(* ------------------------------------------------------------------------ *)

DIRECTORY_SIGNATURE_LIFETIME_SECS == 300

\* how many seconds after the signing the latest observed instants lie beyond
\* the signature lifetime
MaxLate == 2

\* VerifyingKey::from_public_key_pem: only an Ed25519 public key parses
from_public_key_pem(file) ==
    IF file.kind = "pub" /\ file.fam = "ED" THEN Some(file.key) ELSE None

\* directory.rs compute_key_thumbprint, from the base64url x coordinate
compute_key_thumbprint(x) ==
    LET canonical == "{\"crv\":\"Ed25519\",\"kty\":\"OKP\",\"x\":\"" \o x \o "\"}"
    IN  URL_SAFE_NO_PAD(Sha256(canonical))

\* directory.rs compute_jwk_thumbprint, from a verifying key
directory_compute_jwk_thumbprint(k) ==
    compute_key_thumbprint(URL_SAFE_NO_PAD(PublicBytes(k)))

JwkKey(x) == [kty |-> "OKP", crv |-> "Ed25519", x |-> x]

\* lines 109-128: the JWK of every public key file, None when one does not
\* read or parse
RECURSIVE directory_keys(_)
directory_keys(files) ==
    IF files = <<>> THEN Some(<<>>)
    ELSE LET vk == from_public_key_pem(Head(files))
             rest == directory_keys(Tail(files))
         IN  IF IsSome(vk) /\ IsSome(rest)
             THEN Some(<<JwkKey(URL_SAFE_NO_PAD(PublicBytes(Unwrap(vk))))>> \o Unwrap(rest))
             ELSE None
FirstBadKey(files) ==
    files[CHOOSE i \in 1..Len(files) :
             /\ ~IsSome(from_public_key_pem(files[i]))
             /\ \A j \in 1..(i - 1) : IsSome(from_public_key_pem(files[j]))]

\* lines 205-209
DirectoryParams(keyid, nonce, created, expires) ==
    [components |-> <<"@authority">>, alg |-> "ed25519", keyid |-> keyid, nonce |-> nonce,
     tag |-> "http-message-signatures-directory", created |-> created, expires |-> expires]
FormatDirectoryParams(q) ==
    "(" \o ComponentList(q.components) \o ");alg=" \o Quoted(q.alg)
        \o ";keyid=" \o Quoted(q.keyid) \o ";nonce=" \o Quoted(q.nonce)
        \o ";tag=" \o Quoted(q.tag) \o ";created=" \o ToString(q.created)
        \o ";expires=" \o ToString(q.expires)

notDir == <<coreVars, httpVars, memVars, lockVars, sbVars>>

DirFail(e) == dirRes' = e /\ dirPc' = "done"

\* run_generate, lines 98-171: the directory file and the thumbprint lines.
\* Commands of one session run one after the other.
DirGenerate ==
    /\ dirPc = "generate" /\ thPc \in {"off", "done"}
    /\ IF dirArgs.public_key = <<>>
       THEN DirFail("at least one --public-key is required") /\ UNCHANGED <<dirFile, dirOut>>
       ELSE IF dirArgs.sign /\ ~IsSome(dirArgs.private_key)
       THEN DirFail("--private-key is required when using --sign")
            /\ UNCHANGED <<dirFile, dirOut>>
       ELSE IF ~IsSome(directory_keys(dirArgs.public_key))
       THEN DirFail(IF FirstBadKey(dirArgs.public_key).kind = "missing"
                    THEN "failed to read public key"
                    ELSE "failed to parse Ed25519 public key")
            /\ UNCHANGED <<dirFile, dirOut>>
       ELSE IF ~dirArgs.metadata_parses
       THEN DirFail("failed to parse --agent-metadata as JSON")
            /\ UNCHANGED <<dirFile, dirOut>>
       ELSE IF ~dirArgs.out_writable
       THEN DirFail("failed to write directory") /\ UNCHANGED <<dirFile, dirOut>>
       ELSE LET keys == Unwrap(directory_keys(dirArgs.public_key))
            IN  /\ dirFile' = Some([keys |-> keys])
                /\ dirOut' = <<Emitted("Wrote key directory", "out")>>
                      \o [i \in 1..Len(keys) |->
                             Emitted("Key " \o ToString(i), compute_key_thumbprint(keys[i].x))]
                /\ dirPc' = "sign" /\ UNCHANGED dirRes
    /\ UNCHANGED <<dirArgs, dirSigned, thArgs, thPc, thOut, dirNow, httpCache, served, notDir>>

\* run_generate, lines 173-228
DirSign ==
    /\ dirPc = "sign"
    /\ IF ~dirArgs.sign
       THEN dirRes' = "ok" /\ dirPc' = "done" /\ UNCHANGED <<dirOut, dirSigned>>
       ELSE IF ~IsSome(dirArgs.authority)
       THEN DirFail("--authority is required when using --sign")
            /\ UNCHANGED <<dirOut, dirSigned>>
       ELSE IF Unwrap(dirArgs.private_key).kind = "missing"
       THEN DirFail("failed to read private key") /\ UNCHANGED <<dirOut, dirSigned>>
       ELSE IF ~IsSome(from_pkcs8_pem(Unwrap(dirArgs.private_key)))
       THEN DirFail("failed to parse Ed25519 private key")
            /\ UNCHANGED <<dirOut, dirSigned>>
       ELSE LET k == Unwrap(from_pkcs8_pem(Unwrap(dirArgs.private_key)))
                q == DirectoryParams(directory_compute_jwk_thumbprint(k), "nonce-2", dirNow,
                                     dirNow + DIRECTORY_SIGNATURE_LIFETIME_SECS)
                base == "\"@authority\": " \o Unwrap(dirArgs.authority)
                           \o "\n\"@signature-params\": " \o FormatDirectoryParams(q)
                sig == URL_SAFE_NO_PAD(Ed25519Sign(k, base))
            IN  /\ dirSigned' = Some([params |-> q, signature |-> sig,
                                      max_age |-> DIRECTORY_SIGNATURE_LIFETIME_SECS])
                /\ dirOut' = dirOut \o
                      <<Emitted("Content-Type",
                                "application/http-message-signatures-directory+json"),
                        Emitted("Signature", "sig1=:" \o sig \o ":"),
                        Emitted("Signature-Input", "sig1=" \o FormatDirectoryParams(q)),
                        Emitted("Cache-Control",
                                "max-age=" \o ToString(DIRECTORY_SIGNATURE_LIFETIME_SECS))>>
                /\ dirRes' = "ok" /\ dirPc' = "done"
    /\ UNCHANGED <<dirArgs, dirFile, thArgs, thPc, thOut, dirNow, httpCache, served, notDir>>

\* run_thumbprint, lines 231-247
DirThumbprint ==
    /\ thPc = "thumbprint" /\ hsPc \in {"off", "done"}
    /\ thPc' = "done"
    /\ thOut' = IF IsSome(from_public_key_pem(thArgs))
                THEN <<directory_compute_jwk_thumbprint(Unwrap(from_public_key_pem(thArgs)))>>
                ELSE <<>>
    /\ UNCHANGED <<dirArgs, dirPc, dirFile, dirOut, dirSigned, dirRes, thArgs, dirNow,
                   httpCache, served, notDir>>

(* The directory and its signed headers are served as they were printed; an
   HTTP cache in front of the server stores the response when it first fetches
   it and serves the stored response while it is fresh (Cache-Control, line 225). *)

\* the instants observed: around the signing and around the end of the lifetime
Instants ==
    {BaseTime + d : d \in 0..MaxLate}
        \cup {BaseTime + DIRECTORY_SIGNATURE_LIFETIME_SECS - 1 + d : d \in 0..(MaxLate + 1)}

DirTick ==
    /\ dirPc = "done" /\ dirSigned # None
    /\ \E t \in Instants : t > dirNow /\ dirNow' = t
    /\ UNCHANGED <<dirArgs, dirPc, dirFile, dirOut, dirSigned, dirRes, thArgs, thPc, thOut,
                   httpCache, served, notDir>>

\* the cache fetches the response while its signature is still valid
CacheStore ==
    /\ dirPc = "done" /\ dirSigned # None /\ httpCache = None
    /\ dirNow <= Unwrap(dirSigned).params.expires
    /\ httpCache' = Some([at |-> dirNow, response |-> Unwrap(dirSigned)])
    /\ UNCHANGED <<dirArgs, dirPc, dirFile, dirOut, dirSigned, dirRes, thArgs, thPc, thOut,
                   dirNow, served, notDir>>

\* the stored response is fresh while its age is below max-age
CacheFresh == dirNow - Unwrap(httpCache).at < Unwrap(httpCache).response.max_age

CacheServe ==
    /\ httpCache # None /\ CacheFresh
    /\ served' = {dirNow}
    /\ UNCHANGED <<dirArgs, dirPc, dirFile, dirOut, dirSigned, dirRes, thArgs, thPc, thOut,
                   dirNow, httpCache, notDir>>

DirectoryNext ==
    \/ HsLoadKey
    \/ HsParse
    \/ HsBody
    \/ HsComponents
    \/ HsBase
    \/ HsOutput
    \/ DirThumbprint
    \/ DirGenerate
    \/ DirSign
    \/ DirTick
    \/ CacheStore
    \/ CacheServe

(* Inputs *)

DefaultDirArgs ==
    [public_key |-> <<PubPem("ed1")>>, sign |-> TRUE, private_key |-> Some(PrivPem("ed1")),
     authority |-> Some("agent.example"), metadata_parses |-> TRUE, out_writable |-> TRUE]
DirectoryArgs ==
    {[DefaultDirArgs EXCEPT !.public_key = pk, !.sign = sg, !.private_key = pr,
                            !.authority = au] :
        pk \in {<<>>, <<PubPem("ed1")>>, <<PubPem("ed2")>>, <<PubPem("ed1"), PubPem("ed2")>>,
                <<PubPem("ed1"), PubPem("ed1")>>, <<PubPem("ed1"), MissingFile>>,
                <<PubPem("es1")>>},
        sg \in BOOLEAN,
        pr \in {None, Some(PrivPem("ed1")), Some(PrivPem("ed2")), Some(MissingFile),
                Some(Sec1Pem("es1"))},
        au \in {None, Some("agent.example")}}
    \cup {[DefaultDirArgs EXCEPT !.metadata_parses = FALSE],
          [DefaultDirArgs EXCEPT !.out_writable = FALSE]}

DirectoryInit ==
    /\ \E k \in {"ed1", "ed2"} : HsStart([DefaultHsArgs EXCEPT !.key = PrivPem(k)])
    /\ thArgs \in {PubPem("ed1"), PubPem("ed2"), MissingFile} /\ thPc = "thumbprint"
    /\ thOut = <<>>
    /\ dirArgs \in DirectoryArgs /\ dirPc = "generate" /\ dirFile = None /\ dirOut = <<>>
    /\ dirSigned = None /\ dirRes = "pending"
    /\ dirNow = BaseTime /\ httpCache = None /\ served = {}
    /\ CoreOff /\ MemOff /\ LockOff /\ SandboxOff

SpecDirectory == DirectoryInit /\ [][DirectoryNext]_vars

(* Properties of the directory commands, checked under SpecDirectory *)

\* C25: the signature lifetime equals the printed max-age, both 300 seconds,
\* so that a stored response served by a cache while it is fresh carries a
\* signature that has not expired.
C25_CachedSignatureNotExpired ==
    /\ dirSigned # None =>
          /\ Unwrap(dirSigned).params.expires - Unwrap(dirSigned).params.created
                = Unwrap(dirSigned).max_age
          /\ Unwrap(dirSigned).max_age = 300
    /\ \A t \in served : t <= Unwrap(httpCache).response.params.expires

\* the key identifiers computed for the Ed25519 key k, by place
HttpSignKeyIds(k) ==
    IF IsSome(hsParams) /\ hsArgs.key = PrivPem(k) THEN {Unwrap(hsParams).keyid} ELSE {}
DirectorySignKeyIds(k) ==
    IF IsSome(dirSigned) /\ dirArgs.private_key = Some(PrivPem(k))
    THEN {Unwrap(dirSigned).params.keyid} ELSE {}
ThumbprintKeyIds(k) == IF thArgs = PubPem(k) THEN Range(thOut) ELSE {}
GenerateKeyIds(k) ==
    {dirOut[i + 1].value : i \in {j \in 1..Len(dirArgs.public_key) :
                                     /\ dirArgs.public_key[j] = PubPem(k)
                                     /\ Len(dirOut) > j}}
KeyIdsOf(k) ==
    HttpSignKeyIds(k) \cup DirectorySignKeyIds(k) \cup ThumbprintKeyIds(k)
        \cup GenerateKeyIds(k)

\* C26: for every Ed25519 key the keyid of http-sign, the keyid of the
\* directory signature, the output of `directory thumbprint` and the
\* thumbprint `directory generate` prints for the key's entry are one value,
\* also when computed again.
C26_KeyIdentifierAgrees ==
    \A k \in {"ed1", "ed2"} : Cardinality(KeyIdsOf(k)) <= 1

C26_Witness ==
    /\ HttpSignKeyIds("ed1") # {} /\ DirectorySignKeyIds("ed1") # {}
    /\ ThumbprintKeyIds("ed1") # {} /\ GenerateKeyIds("ed1") # {}
    /\ dirArgs.public_key = <<PubPem("ed1"), PubPem("ed1")>>
    /\ KeyIdsOf("ed2") = {}

(* ------------------------------------------------------------------------ *)
(* The memory that holds private-key bytes during one signing operation:    *)
(* sign_jws (src/crypto/signer.rs 12-54), http-sign run                     *)
(* (src/commands/http_sign.rs 87-248), run_generate with --sign             *)
(* (src/commands/directory.rs 184-226)                                      *)
(* ------------------------------------------------------------------------ *)

\* A buffer holding key bytes: who owns it, whether its owner wipes it when
\* dropped, and whether it is live, wiped, or released with the bytes in place
Buffer(holder, wipes) == [holder |-> holder, wipes |-> wipes, state |-> "live"]
Drop(b) == [b EXCEPT !.state = IF b.state # "live" THEN b.state
                                ELSE IF b.wipes THEN "wiped" ELSE "released"]

\* Zeroizing::new(fs::read_to_string(..)): wiped when dropped
PemString == Buffer("Zeroizing<String> pem", TRUE)
\* jsonwebtoken::EncodingKey keeps the decoded key in a plain Vec<u8>
EncodingKeyContent == Buffer("EncodingKey content", FALSE)
\* the PEM body jsonwebtoken decodes on the way to the EncodingKey
DecodedPemContent == Buffer("decoded PEM content", FALSE)
\* p256::SecretKey and the pkcs8 SecretDocument wipe themselves when dropped
P256Secret == Buffer("P256SecretKey secret", TRUE)
Pkcs8Der == Buffer("SecretDocument der", TRUE)
\* ed25519_dalek::SigningKey wipes itself when built with the zeroize feature
DalekSigningKey(feature) == Buffer("SigningKey signing_key", feature)

\* signer.rs 34-54: the buffers encoding_key_from_pem creates; those that do
\* not leave the function are dropped there
EncodingKeyBuffers(file, alg) ==
    IF alg = "EdDsa"
    THEN {Drop(DecodedPemContent)}
            \cup (IF encoding_key_from_pem(file, alg) THEN {EncodingKeyContent} ELSE {})
    ELSE IF file.kind = "priv" /\ file.fam = "EC"
    THEN {Drop(DecodedPemContent), EncodingKeyContent}
    ELSE IF file.kind = "sec1" /\ file.fam = "EC"
    THEN {Drop(DecodedPemContent), Drop(P256Secret), Drop(Pkcs8Der), EncodingKeyContent}
    ELSE {Drop(DecodedPemContent)}

\* http_sign.rs 92-93, directory.rs 187-188
SigningKeyBuffers(file, feature) ==
    {Drop(Pkcs8Der)}
        \cup (IF IsSome(from_pkcs8_pem(file)) THEN {DalekSigningKey(feature)} ELSE {})

DecodeSucceeds ==
    IF kmOp = "sign_jws" THEN encoding_key_from_pem(kmKey, kmAlg)
    ELSE IsSome(from_pkcs8_pem(kmKey))

notMem == <<coreVars, httpVars, dirVars, lockVars, sbVars>>

\* signer.rs 20-23, http_sign.rs 88-91, directory.rs 184-186
KmRead ==
    /\ kmPc = "read"
    /\ IF kmKey.kind = "missing"
       THEN kmPc' = "ended" /\ kmRes' = "failed to read private key" /\ UNCHANGED kmHeap
       ELSE kmPc' = "decode" /\ kmHeap' = {PemString} /\ UNCHANGED kmRes
    /\ UNCHANGED <<kmOp, kmKey, kmAlg, kmBuild, kmFault, notMem>>

\* signer.rs 24, http_sign.rs 92-93, directory.rs 187-188
KmDecode ==
    /\ kmPc = "decode"
    /\ kmHeap' = kmHeap \cup (IF kmOp = "sign_jws" THEN EncodingKeyBuffers(kmKey, kmAlg)
                              ELSE SigningKeyBuffers(kmKey, kmBuild))
    /\ IF DecodeSucceeds
       THEN kmPc' = "use" /\ UNCHANGED kmRes
       ELSE kmPc' = "exit" /\ kmRes' = "invalid private key"
    /\ UNCHANGED <<kmOp, kmKey, kmAlg, kmBuild, kmFault, notMem>>

\* signer.rs 26-31, http_sign.rs 95-248, directory.rs 189-226: the rest of
\* the operation, which returns Ok or, at a later `?`, an error
KmUse ==
    /\ kmPc = "use"
    /\ kmPc' = "exit"
    /\ kmRes' = IF kmFault = "none" THEN "ok" ELSE kmFault
    /\ UNCHANGED <<kmOp, kmKey, kmAlg, kmBuild, kmFault, kmHeap, notMem>>

\* the return: every local is dropped
KmExit ==
    /\ kmPc = "exit"
    /\ kmPc' = "ended"
    /\ kmHeap' = {Drop(b) : b \in kmHeap}
    /\ UNCHANGED <<kmOp, kmKey, kmAlg, kmBuild, kmFault, kmRes, notMem>>

KeyMemoryNext ==
    \/ KmRead
    \/ KmDecode
    \/ KmUse
    \/ KmExit

LaterFaults(op) ==
    CASE op = "sign_jws" -> {"none", "failed to encode JWS"}
      [] op = "http_sign" ->
            {"none", "invalid URL", "invalid header format", "failed to read body file",
             "component not found in headers"}
      [] OTHER -> {"none", "system time error", "failed to generate nonce"}

KeyMemoryInit ==
    /\ kmOp \in {"sign_jws", "http_sign", "directory"}
    /\ kmKey \in {MissingFile, PrivPem("ed1"), PrivPem("es1"), Sec1Pem("es1")}
    /\ kmAlg \in (IF kmOp = "sign_jws" THEN SignatureAlgs ELSE {"EdDsa"})
    /\ kmBuild \in (IF kmOp = "sign_jws" THEN {TRUE} ELSE BOOLEAN)
    /\ kmFault \in LaterFaults(kmOp)
    /\ kmPc = "read" /\ kmHeap = {} /\ kmRes = "pending"
    /\ CoreOff /\ HttpOff /\ DirOff /\ LockOff /\ SandboxOff

SpecKeyMemory == KeyMemoryInit /\ [][KeyMemoryNext]_vars

\* C27: when a signing operation has ended, by its successful return or by an
\* error return after the key was read, no buffer that held the private-key
\* bytes, copies made while decoding included, is left unwiped.
C27_KeyBytesWipedOnEveryExit ==
    kmPc = "ended" => \A b \in kmHeap : b.state = "wiped"

(* The audience verdict of the verify command, checked under SpecVerifyCmd *)

\* the values of the token's aud claim (Some(<<>>) when it has none)
TokenAudience == extract_audience(ParseClaims(tok.payload))
\* the error the command ended with, "" when it accepted
CommandError ==
    IF ~vjRes.ok THEN vjRes.err ELSE validate_verified(vjRes, args, schemaValid)
AudienceErrors ==
    {"audience_claim_without_expected_audience", "invalid_audience", "audience mismatch",
     "aud claim must be a string or array"}

\* C28: the verify command gives the audience verdict of the engine's rule:
\* with expected audiences given, a token whose aud shares a value with them
\* is not rejected for its audience; with none given, a token that carries an
\* aud claim is rejected.
C28_CommandAudienceVerdictAsEngine ==
    cmdPc = "done" =>
        /\ (/\ args.audience # <<>>
            /\ IsSome(TokenAudience)
            /\ Range(args.audience) \cap Range(Unwrap(TokenAudience)) # {})
              => CommandError \notin AudienceErrors
        /\ (args.audience = <<>> /\ HasMember(tok.payload, "aud"))
              => exitCode = Some(1)

(* ------------------------------------------------------------------------ *)
(* The per-kind schema of one process: src/credential.rs 58-60, 107-160     *)
(* AGENT_SCHEMA and DEVELOPER_SCHEMA are OnceLock<Mutex<Option<Value>>>;    *)
(* the threads of the process call validate_credential concurrently.        *)
(* ------------------------------------------------------------------------ *)

\* the validate_credential calls each thread makes
MaxCalls == 2

\* line 156: guard.is_none()
SlotEmpty_Always(g) == TRUE

SlotEmpty(g) == g = None

\* what schema::get_schema can return after a cache miss: the fetched
\* document, a stale cache file, or the embedded schema
ResolvedAfterMiss(k) == {RemoteDoc(k), OlderDoc(k), get_embedded_schema(k)}

notLock == <<coreVars, httpVars, dirVars, memVars, sbVars>>

Resolving(t) == callPc[t] \in {"get_schema", "fetch"}

\* ensure_schema_loaded, lines 150-155: take the kind's mutex
VcLock(t) ==
    /\ callPc[t] = "lock"
    /\ lockHolder[callKind[t]] = None
    /\ lockHolder' = [lockHolder EXCEPT ![callKind[t]] = Some(t)]
    /\ callPc' = [callPc EXCEPT ![t] = IF SlotEmpty(slot[callKind[t]])
                                       THEN "get_schema" ELSE "clone"]
    /\ UNCHANGED <<slot, callKind, callDoc, callsLeft, resolved, notLock>>

\* line 157, get_or_fetch_schema -> get_schema: the cache check; a fresh
\* cache file is the result
VcCacheCheck(t) ==
    /\ callPc[t] = "get_schema"
    /\ \/ /\ slot' = [slot EXCEPT ![callKind[t]] = Some(OlderDoc(callKind[t]))]
          /\ resolved' = [resolved EXCEPT
                             ![callKind[t]] = Append(@, OlderDoc(callKind[t]))]
          /\ callPc' = [callPc EXCEPT ![t] = "clone"]
       \/ /\ callPc' = [callPc EXCEPT ![t] = "fetch"]
          /\ UNCHANGED <<slot, resolved>>
    /\ UNCHANGED <<lockHolder, callKind, callDoc, callsLeft, notLock>>

\* line 157, get_or_fetch_schema -> get_schema: the network fetch and its
\* fallbacks; the result is stored in the slot
VcFetch(t) ==
    /\ callPc[t] = "fetch"
    /\ \E d \in ResolvedAfterMiss(callKind[t]) :
          /\ slot' = [slot EXCEPT ![callKind[t]] = Some(d)]
          /\ resolved' = [resolved EXCEPT ![callKind[t]] = Append(@, d)]
    /\ callPc' = [callPc EXCEPT ![t] = "clone"]
    /\ UNCHANGED <<lockHolder, callKind, callDoc, callsLeft, notLock>>

\* lines 158-159: clone the document, drop the guard
VcClone(t) ==
    /\ callPc[t] = "clone"
    /\ callDoc' = [callDoc EXCEPT ![t] = @ \cup {<<callKind[t], Unwrap(slot[callKind[t]])>>}]
    /\ lockHolder' = [lockHolder EXCEPT ![callKind[t]] = None]
    /\ callPc' = [callPc EXCEPT ![t] = "validate"]
    /\ UNCHANGED <<slot, callKind, callsLeft, resolved, notLock>>

\* validate_credential, lines 112-128: compile and validate; the thread then
\* makes its next call, for either kind
VcValidate(t) ==
    /\ callPc[t] = "validate"
    /\ callsLeft' = [callsLeft EXCEPT ![t] = @ - 1]
    /\ IF callsLeft[t] > 1
       THEN \E k \in Kinds : /\ callKind' = [callKind EXCEPT ![t] = k]
                             /\ callPc' = [callPc EXCEPT ![t] = "lock"]
       ELSE callPc' = [callPc EXCEPT ![t] = "done"] /\ UNCHANGED callKind
    /\ UNCHANGED <<slot, lockHolder, callDoc, resolved, notLock>>

SchemaSlotNext ==
    \E t \in Threads :
        \/ VcLock(t)
        \/ VcCacheCheck(t)
        \/ VcFetch(t)
        \/ VcClone(t)
        \/ VcValidate(t)

SchemaSlotInit ==
    /\ slot = [k \in Kinds |-> None] /\ lockHolder = [k \in Kinds |-> None]
    /\ callKind \in [Threads -> Kinds]
    /\ callPc = [t \in Threads |-> "lock"]
    /\ callDoc = [t \in Threads |-> {}]
    /\ callsLeft = [t \in Threads |-> MaxCalls]
    /\ resolved = [k \in Kinds |-> <<>>]
    /\ CoreOff /\ HttpOff /\ DirOff /\ MemOff /\ SandboxOff

SpecSchemaSlot == SchemaSlotInit /\ [][SchemaSlotNext]_vars

(* Properties of the schema slots, checked under SpecSchemaSlot *)

OtherKind(k) == IF k = "Agent" THEN "Developer" ELSE "Agent"
\* the thread has called for kind k and cannot take the kind's mutex
Waiting(t, k) == callPc[t] = "lock" /\ callKind[t] = k /\ lockHolder[k] # None

ResolvedAtMostOnce ==
    \A k \in Kinds :
        /\ Len(resolved[k]) <= 1
        /\ Cardinality({t \in Threads : Resolving(t) /\ callKind[t] = k}) <= 1
        /\ \A t \in Threads :
              Resolving(t) /\ callKind[t] = k =>
                  \A u \in Threads \ {t} : callKind[u] = k => callPc[u] = "lock"
        /\ \A t \in Threads : \A e \in callDoc[t] :
              e[1] = k => resolved[k] = <<e[2]>> /\ slot[k] = Some(e[2])
        /\ \A t \in Threads :
              Waiting(t, k) => \E u \in Threads : callKind[u] = k /\ lockHolder[k] = Some(u)

\* a step for one kind leaves the other kind's slot, mutex and resolutions alone
KindsIndependent ==
    \A t \in Threads :
        callPc'[t] # callPc[t] /\ callPc[t] # "validate" =>
            /\ slot'[OtherKind(callKind[t])] = slot[OtherKind(callKind[t])]
            /\ lockHolder'[OtherKind(callKind[t])] = lockHolder[OtherKind(callKind[t])]
            /\ resolved'[OtherKind(callKind[t])] = resolved[OtherKind(callKind[t])]

\* C29: the schema of a kind is resolved at most once in a process: under any
\* interleaving of concurrent validate_credential calls one call runs the
\* resolver while the others for that kind wait, every call validates against
\* that one document, and work for one kind neither blocks nor changes the
\* other kind.
C29_SchemaResolvedOncePerKind == [][ResolvedAtMostOnce' /\ KindsIndependent]_vars

C29_Witness ==
    /\ callKind = [t \in Threads |-> IF t = "t3" THEN "Developer" ELSE "Agent"]
    /\ callPc = [t \in Threads |-> IF t = "t1" THEN "fetch"
                                   ELSE IF t = "t2" THEN "lock" ELSE "fetch"]
    /\ lockHolder = [k \in Kinds |-> IF k = "Agent" THEN Some("t1") ELSE Some("t3")]
    /\ slot = [k \in Kinds |-> None]

(* ------------------------------------------------------------------------ *)
(* The sandbox monitor: src/sandbox/monitor.rs, run_agent (66-164) and      *)
(* wait_with_timeout (424-439), with the agent process it starts and the    *)
(* two reader threads                                                       *)
(* ------------------------------------------------------------------------ *)

\* the lines the agent writes to one stream at most
MaxLines == 1
\* the clock runs to MaxClock, and on while wait_with_timeout polls
MaxClock == 3

notSandbox == <<coreVars, httpVars, dirVars, memVars, lockVars>>

Elapsed(since) == sbClock - Unwrap(since)

\* lines 69-91: split the command, spawn the child with piped stdout and
\* stderr; lines 93-136: start the two reader threads
SbSpawn ==
    /\ sbPc = "spawn"
    /\ IF sbCommand = ""
       THEN /\ sbRes' = "Empty command provided" /\ sbPc' = "done"
            /\ UNCHANGED <<sbSpawned, sbProc, sbPipe, sbReader>>
       ELSE IF sbCommand = "no such program"
       THEN /\ sbRes' = "Failed to execute command" /\ sbPc' = "done"
            /\ UNCHANGED <<sbSpawned, sbProc, sbPipe, sbReader>>
       ELSE /\ sbProc' = "running" /\ sbSpawned' = Some(sbClock)
            /\ sbPipe' = [s \in Streams |-> [open |-> TRUE, lines |-> 0]]
            /\ sbReader' = [s \in Streams |-> "reading"]
            /\ sbPc' = "join_stdout" /\ UNCHANGED sbRes
    /\ UNCHANGED <<sbCommand, sbTimeout, sbClock, sbWaitStart, notSandbox>>

\* the agent writes a line to a stream it has open
AgentWrite(s) ==
    /\ sbProc = "running" /\ sbPipe[s].open /\ sbPipe[s].lines < MaxLines
    /\ sbPipe' = [sbPipe EXCEPT ![s].lines = @ + 1]
    /\ UNCHANGED <<sbCommand, sbTimeout, sbClock, sbSpawned, sbProc, sbReader, sbPc,
                   sbWaitStart, sbRes, notSandbox>>

\* the agent closes a stream and runs on
AgentClose(s) ==
    /\ sbProc = "running" /\ sbPipe[s].open
    /\ sbPipe' = [sbPipe EXCEPT ![s].open = FALSE]
    /\ UNCHANGED <<sbCommand, sbTimeout, sbClock, sbSpawned, sbProc, sbReader, sbPc,
                   sbWaitStart, sbRes, notSandbox>>

\* the agent exits; its streams are closed with it
AgentExit ==
    /\ sbProc = "running"
    /\ sbProc' = "exited"
    /\ sbPipe' = [s \in Streams |-> [sbPipe[s] EXCEPT !.open = FALSE]]
    /\ UNCHANGED <<sbCommand, sbTimeout, sbClock, sbSpawned, sbReader, sbPc, sbWaitStart,
                   sbRes, notSandbox>>

\* a reader thread, lines 105-117 and 123-135: one line read and analysed
ReaderLine(s) ==
    /\ sbReader[s] = "reading" /\ sbPipe[s].lines > 0
    /\ sbPipe' = [sbPipe EXCEPT ![s].lines = @ - 1]
    /\ UNCHANGED <<sbCommand, sbTimeout, sbClock, sbSpawned, sbProc, sbReader, sbPc,
                   sbWaitStart, sbRes, notSandbox>>

\* lines() ends when the stream is drained and its write end closed
ReaderEof(s) ==
    /\ sbReader[s] = "reading" /\ sbPipe[s].lines = 0 /\ ~sbPipe[s].open
    /\ sbReader' = [sbReader EXCEPT ![s] = "done"]
    /\ UNCHANGED <<sbCommand, sbTimeout, sbClock, sbSpawned, sbProc, sbPipe, sbPc,
                   sbWaitStart, sbRes, notSandbox>>

\* line 139: stdout_thread.join()
SbJoinStdout ==
    /\ sbPc = "join_stdout" /\ sbReader["stdout"] = "done"
    /\ sbPc' = "join_stderr"
    /\ UNCHANGED <<sbCommand, sbTimeout, sbClock, sbSpawned, sbProc, sbPipe, sbReader,
                   sbWaitStart, sbRes, notSandbox>>

\* lines 140-154: stderr_thread.join(), merge, and the entry of
\* wait_with_timeout (line 425: start = Instant::now()) or of child.wait()
SbJoinStderr ==
    /\ sbPc = "join_stderr" /\ sbReader["stderr"] = "done"
    /\ sbPc' = "wait"
    /\ sbWaitStart' = IF IsSome(sbTimeout) THEN Some(sbClock) ELSE None
    /\ UNCHANGED <<sbCommand, sbTimeout, sbClock, sbSpawned, sbProc, sbPipe, sbReader,
                   sbRes, notSandbox>>

\* wait_with_timeout, lines 427-438: one poll that ends the loop (a poll that
\* finds the child running inside the timeout sleeps and changes nothing)
SbWait ==
    /\ sbPc = "wait" /\ IsSome(sbTimeout)
    /\ IF sbProc = "exited"
       THEN sbRes' = "Ok(exit code)" /\ UNCHANGED <<sbProc, sbPipe>>
       ELSE /\ Elapsed(sbWaitStart) > Unwrap(sbTimeout)
            /\ sbProc' = "killed"
            /\ sbPipe' = [s \in Streams |-> [sbPipe[s] EXCEPT !.open = FALSE]]
            /\ sbRes' = "Agent execution timed out"
    /\ sbPc' = "done"
    /\ UNCHANGED <<sbCommand, sbTimeout, sbClock, sbSpawned, sbReader, sbWaitStart,
                   notSandbox>>

\* lines 151-153: child.wait() without a timeout
SbWaitForever ==
    /\ sbPc = "wait" /\ ~IsSome(sbTimeout) /\ sbProc = "exited"
    /\ sbRes' = "Ok(exit code)" /\ sbPc' = "done"
    /\ UNCHANGED <<sbCommand, sbTimeout, sbClock, sbSpawned, sbProc, sbPipe, sbReader,
                   sbWaitStart, notSandbox>>

\* a second passes
SbTick ==
    /\ \/ sbClock < MaxClock
       \/ /\ sbPc = "wait" /\ IsSome(sbTimeout) /\ sbProc = "running"
          /\ Elapsed(sbWaitStart) <= Unwrap(sbTimeout)
    /\ sbClock' = sbClock + 1
    /\ UNCHANGED <<sbCommand, sbTimeout, sbSpawned, sbProc, sbPipe, sbReader, sbPc,
                   sbWaitStart, sbRes, notSandbox>>

MonitorThread == SbSpawn \/ SbJoinStdout \/ SbJoinStderr \/ SbWait \/ SbWaitForever
ReaderThread(s) == ReaderLine(s) \/ ReaderEof(s)

SandboxNext ==
    \/ SbSpawn
    \/ \E s \in Streams : AgentWrite(s)
    \/ \E s \in Streams : AgentClose(s)
    \/ AgentExit
    \/ \E s \in Streams : ReaderLine(s)
    \/ \E s \in Streams : ReaderEof(s)
    \/ SbJoinStdout
    \/ SbJoinStderr
    \/ SbWait
    \/ SbWaitForever
    \/ SbTick

SandboxInit ==
    /\ sbCommand \in {"", "no such program", "agent"}
    /\ sbTimeout \in {None, Some(1), Some(2)}
    /\ sbClock = 0 /\ sbSpawned = None /\ sbProc = "none"
    /\ sbPipe = [s \in Streams |-> [open |-> FALSE, lines |-> 0]]
    /\ sbReader = [s \in Streams |-> "off"] /\ sbPc = "spawn" /\ sbWaitStart = None
    /\ sbRes = "pending"
    /\ CoreOff /\ HttpOff /\ DirOff /\ MemOff /\ LockOff

SpecSandbox == SandboxInit /\ [][SandboxNext]_vars

\* The threads of the monitor are scheduled whenever they can run, and time
\* passes; nothing is assumed of the agent.
SpecSandboxFair ==
    /\ SpecSandbox
    /\ WF_vars(MonitorThread)
    /\ \A s \in Streams : WF_vars(ReaderThread(s))
    /\ WF_vars(SbTick)

(* Properties of the sandbox monitor, checked under SpecSandboxFair *)

\* the agent is still running and the timeout has elapsed since its start
RunningPastTimeout ==
    /\ sbProc = "running" /\ IsSome(sbTimeout)
    /\ Elapsed(sbSpawned) > Unwrap(sbTimeout)

\* C30: with a timeout given, an agent still running once the timeout has
\* elapsed since its start is eventually killed and run_agent returns the
\* timeout error (unless the agent ends by itself first), also when the agent
\* keeps its stdout and stderr open and writes nothing.
C30_TimeoutKillsAgent ==
    RunningPastTimeout ~>
        (sbProc = "exited" \/ (sbProc = "killed" /\ sbRes = "Agent execution timed out"))

====
